---- MODULE Spec2Model ----
(***************************************************************************)
(* PicoWiFiProvisioning: WiFi provisioning over BLE for the Pico W.        *)
(*                                                                         *)
(* The model follows src/src/PicoWiFiProvisioning.cpp.  Every method of    *)
(* PicoWiFiProvisioningClass is an operator on a record of the object's    *)
(* fields (the handler's effect as the code computes it), and every        *)
(* action applies one handler to the current state.  Strings are           *)
(* sequences of bytes, millis() is a 32-bit counter kept as two 16-bit     *)
(* halves, and the collaborators (WiFi, BTstack, BLESecure, BLENotify,     *)
(* LittleFS) are the environment: what a handler asks of them is the log   *)
(* `out` of the record it returns, what they answer is an input of the     *)
(* handler.                                                                *)
(***************************************************************************)
EXTENDS Integers, Sequences, FiniteSets, TLC

\* ------------------------------------------------------------------ state
VARIABLES
    status,                      \* _status
    networks,                    \* _networks[0 .. _networkCount-1]
    receivedSSID,                \* _receivedSSID (as a C string)
    receivedPassword,            \* _receivedPassword (as a C string)
    connectedDevice,             \* _connectedDevice (NULLDEV or a device)
    connectionStartTime,         \* _connectionStartTime
    statusCallback,              \* _statusCallback != nullptr
    wifiStatusCallback,          \* _wifiStatusCallback != nullptr
    bleConnectionStateCallback,  \* _bleConnectionStateCallback != nullptr
    lastReportedWiFiStatusToApp, \* static in loop()
    internalLastWiFiState,       \* static _internalLastWiFiStateForGeneralChanges
    begun,                       \* begin() returned true: handles and callbacks set
    file,                        \* LittleFS: the artifact /wifi_config.json
    subscribed,                  \* BLENotify: pairing-status notifications enabled
    now,                         \* millis()
    advances,                    \* how often the clock has been moved on
    delivered,                   \* the status the registered status callback was last
                                 \* called with (kept by SpecCb only)
    twin                         \* a second run, fed other passphrases (SpecNI only)

vars == <<status, networks, receivedSSID, receivedPassword, connectedDevice,
          connectionStartTime, statusCallback, wifiStatusCallback,
          bleConnectionStateCallback, lastReportedWiFiStatusToApp,
          internalLastWiFiState, begun, file, subscribed, now, advances,
          delivered, twin>>

\* ------------------------------------------------------- program constants
PROVISION_IDLE == 0
PROVISION_STARTED == 1
PROVISION_COMPLETE == 2
PROVISION_FAILED == 3
PROVISION_CONNECTING == 4
PROVISION_CONNECTED == 5

MAX_WIFI_NETWORKS == 5
MAX_SSID_LENGTH == 32
MAX_PASSWORD_LENGTH == 64
WIFI_CONNECT_TIMEOUT_MS == 15000

CMD_SAVE_NETWORK == 1
CMD_CONNECT == 2
CMD_CLEAR_NETWORKS == 3
CMD_GET_STATUS == 4
CMD_DISCONNECT == 5
CMD_START_SCAN == 6
CMD_GET_SCAN_RESULTS == 7

PAIRING_STATUS_NOT_PAIRED == 0
PAIRING_STATUS_PAIRED == 1

\* wl_status_t, as the code names them
WL_IDLE_STATUS == 0
WL_NO_SSID_AVAIL == 1
WL_CONNECTED == 3
WL_CONNECT_FAILED == 4
WL_CONNECTION_LOST == 5
WL_DISCONNECTED == 6
WL_NO_SHIELD == 255

\* BLEPairingStatus values the code tests, and BLEStatus
PAIRING_IDLE == 0
PAIRING_STARTED == 1
PAIRING_COMPLETE == 2
PAIRING_FAILED == 3
BLE_STATUS_OK == 0
BLE_STATUS_CONNECTION_ERROR == 3

\* The attribute handles setupBLEService() obtains: distinct, non-zero, the
\* client configuration descriptor of pairing-status right after its value.
SsidCharHandle == 3
PasswordCharHandle == 5
CommandCharHandle == 7
PairingStatusCharHandle == 9
UnknownHandle == 20

NULLDEV == 0
Device == 1

\* ----------------------------------------------------------------- strings
\* A C string is the bytes before the first NUL.
RECURSIVE CStr(_)
CStr(b) ==
    IF b = <<>> \/ Head(b) = 0 THEN <<>> ELSE <<Head(b)>> \o CStr(Tail(b))

Take(b, n) == SubSeq(b, 1, IF Len(b) < n THEN Len(b) ELSE n)

\* strncpy(dst, src, n) into a zeroed field of n+1 bytes, read back as a C string
Strncpy(src, n) == Take(CStr(src), n)

\* a const char* that is nullptr
NULLSTR == <<0 - 1>>

StrEmpty(p) == p = NULLSTR \/ Len(CStr(p)) = 0

\* ------------------------------------------------------------ 32-bit clock
Half == 65536

U32(hi, lo) == [hi |-> hi, lo |-> lo]

Add32(t, d) ==
    LET lo == t.lo + d
    IN  U32((t.hi + (lo \div Half)) % Half, lo % Half)

\* variant: a subtraction that stops at 0 instead of wrapping
Sub32Saturating(a, b) ==
    IF a.hi < b.hi \/ (a.hi = b.hi /\ a.lo < b.lo)
    THEN U32(0, 0)
    ELSE LET lo == a.lo - b.lo
             borrow == IF lo < 0 THEN 1 ELSE 0
         IN  U32(a.hi - b.hi - borrow, (lo + Half) % Half)

\* (a - b) mod 2^32, as unsigned long subtraction computes it
Sub32(a, b) ==
    LET lo == a.lo - b.lo
        borrow == IF lo < 0 THEN 1 ELSE 0
    IN  U32((a.hi - b.hi - borrow + 2 * Half) % Half, (lo + Half) % Half)

\* variant: the comparison that holds at equality too
Geq32(a, b) == a.hi > b.hi \/ (a.hi = b.hi /\ a.lo >= b.lo)

Gt32(a, b) == a.hi > b.hi \/ (a.hi = b.hi /\ a.lo > b.lo)

TimeoutMs == U32(0, WIFI_CONNECT_TIMEOUT_MS)

\* --------------------------------------------------------------- the object
\* One request to a collaborator, or one callback into the application.
Ev(op, a, b) == [op |-> op, a |-> a, b |-> b]

Emit(s, e) == [s EXCEPT !.out = Append(@, e)]

\* variant: setStatus() that calls the callback whether or not the status changes
SetStatusAlways(s, newStatus) ==
    LET t == [s EXCEPT !.status = newStatus]
    IN  IF t.statusCallback THEN Emit(t, Ev("statusCallback", <<newStatus>>, <<>>)) ELSE t

\* Set the current status and call the callback if registered
SetStatus(s, newStatus) ==
    IF s.status # newStatus
    THEN LET t == [s EXCEPT !.status = newStatus]
         IN  IF t.statusCallback
             THEN Emit(t, Ev("statusCallback", <<t.status>>, <<>>))
             ELSE t
    ELSE s

\* ------------------------------------------------------ the durable artifact
\* /wifi_config.json: absent, a JSON document (the objects of its "networks"
\* array), unparseable text ("bad", which an empty file is), or over 2048 bytes.
NoFile == [kind |-> "absent", nets |-> <<>>]
BadFile == [kind |-> "bad", nets |-> <<>>]
BigFile == [kind |-> "big", nets |-> <<>>]
JsonFile(nets) == [kind |-> "json", nets |-> nets]

JsonNet(ssid, password, enabled) ==
    [ssid |-> ssid, password |-> password, enabled |-> enabled]

Net(ssid, password, enabled) ==
    [ssid |-> ssid, password |-> password, enabled |-> enabled]

\* variant: a document that records every entry as enabled
SerializeAllEnabled(nets) ==
    [i \in 1..Len(nets) |-> JsonNet(nets[i].ssid, nets[i].password, "true")]

\* serializeJson of the document saveNetworksToFlash() builds
Serialize(nets) ==
    [i \in 1..Len(nets) |->
        JsonNet(nets[i].ssid, nets[i].password,
                IF nets[i].enabled THEN "true" ELSE "false")]

\* fs: what LittleFS does with the write ("ok", "openfail", "writefail")
SaveNetworksToFlash(s, fs) ==
    CASE fs = "openfail" -> [s EXCEPT !.ret = 0]
      [] fs = "writefail" -> [s EXCEPT !.file = BadFile, !.ret = 0]
      [] OTHER -> [s EXCEPT !.file = JsonFile(Serialize(s.networks)), !.ret = 1]

\* variant: the loop of loadNetworksFromFlash() without its break at capacity
RECURSIVE LoadFromAll(_, _)
LoadFromAll(objs, acc) ==
    IF objs = <<>> THEN acc
    ELSE LET o == Head(objs)
             enabled == IF o.enabled = "false" THEN FALSE ELSE TRUE
         IN  IF o.ssid # NULLSTR /\ Len(CStr(o.ssid)) > 0
             THEN LoadFromAll(Tail(objs),
                      Append(acc, Net(Strncpy(o.ssid, MAX_SSID_LENGTH),
                                      IF o.password # NULLSTR
                                      THEN Strncpy(o.password, MAX_PASSWORD_LENGTH)
                                      ELSE <<>>,
                                      enabled)))
             ELSE LoadFromAll(Tail(objs), acc)

\* the loop body of loadNetworksFromFlash(): acc is _networks[0 .. _networkCount-1]
RECURSIVE LoadFrom(_, _)
LoadFrom(objs, acc) ==
    IF objs = <<>> \/ Len(acc) >= MAX_WIFI_NETWORKS THEN acc
    ELSE LET o == Head(objs)
             enabled == IF o.enabled = "false" THEN FALSE ELSE TRUE
         IN  IF o.ssid # NULLSTR /\ Len(CStr(o.ssid)) > 0
             THEN LoadFrom(Tail(objs),
                      Append(acc, Net(Strncpy(o.ssid, MAX_SSID_LENGTH),
                                      IF o.password # NULLSTR
                                      THEN Strncpy(o.password, MAX_PASSWORD_LENGTH)
                                      ELSE <<>>,
                                      enabled)))
             ELSE LoadFrom(Tail(objs), acc)

LoadNetworksFromFlash(s) ==
    CASE s.file.kind = "absent" -> [s EXCEPT !.ret = 0]
      [] s.file.kind = "big" -> [s EXCEPT !.ret = 0]
      [] s.file.kind = "bad" -> [s EXCEPT !.ret = 0]
      [] OTHER -> [s EXCEPT !.networks = LoadFrom(s.file.nets, <<>>), !.ret = 1]

\* ------------------------------------------------------------ the store
\* variant: no entry is ever found
NoExistingIndex(nets, ssid) == 0

\* the index of the first entry strcmp() finds equal to ssid, or 0
ExistingIndex(nets, ssid) ==
    LET hits == {i \in 1..Len(nets) : nets[i].ssid = CStr(ssid)}
    IN  IF hits = {} THEN 0 ELSE CHOOSE i \in hits : \A j \in hits : i <= j

\* variant: saveNetwork() that appends without looking for room
SaveNetworkNoRoomCheck(s, ssid, password, fs) ==
    IF StrEmpty(ssid) THEN [s EXCEPT !.ret = 0]
    ELSE LET existingIndex == ExistingIndex(s.networks, ssid)
         IN  IF existingIndex > 0
             THEN SaveNetworksToFlash(
                      [s EXCEPT !.networks[existingIndex].password =
                                    Strncpy(password, MAX_PASSWORD_LENGTH),
                                !.networks[existingIndex].enabled = TRUE], fs)
             ELSE SaveNetworksToFlash(
                      [s EXCEPT !.networks =
                           Append(@, Net(Strncpy(ssid, MAX_SSID_LENGTH),
                                         Strncpy(password, MAX_PASSWORD_LENGTH),
                                         TRUE))], fs)

SaveNetwork(s, ssid, password, fs) ==
    IF StrEmpty(ssid) THEN [s EXCEPT !.ret = 0]
    ELSE LET existingIndex == ExistingIndex(s.networks, ssid)
         IN  IF existingIndex > 0
             THEN SaveNetworksToFlash(
                      [s EXCEPT !.networks[existingIndex].password =
                                    Strncpy(password, MAX_PASSWORD_LENGTH),
                                !.networks[existingIndex].enabled = TRUE], fs)
             ELSE IF Len(s.networks) < MAX_WIFI_NETWORKS
             THEN SaveNetworksToFlash(
                      [s EXCEPT !.networks =
                           Append(@, Net(Strncpy(ssid, MAX_SSID_LENGTH),
                                         Strncpy(password, MAX_PASSWORD_LENGTH),
                                         TRUE))], fs)
             ELSE [s EXCEPT !.ret = 0]

\* variant: clearNetworks() that refuses while an attempt or a connection is up
ClearNetworksWhenIdle(s, rm) ==
    IF s.status = PROVISION_CONNECTING \/ s.status = PROVISION_CONNECTED
    THEN [s EXCEPT !.ret = 0]
    ELSE [s EXCEPT !.networks = <<>>,
                   !.file = IF s.file.kind # "absent" /\ rm THEN NoFile ELSE @,
                   !.ret = 1]

\* rm: whether LittleFS.remove() removes the file
ClearNetworks(s, rm) ==
    [s EXCEPT !.networks = <<>>,
              !.file = IF s.file.kind # "absent" /\ rm THEN NoFile ELSE @,
              !.ret = 1]

\* ------------------------------------------------------- connecting
\* w: what WiFi.status() answers
\* variant: connectToNetwork() without its guard against an empty name
ConnectToNetworkNoEmptyCheck(s, ssid, password, w) ==
    LET s1 == SetStatus(s, PROVISION_CONNECTING)
        s2 == Emit(s1, Ev("stopAdvertising", <<>>, <<>>))
        s3 == IF s2.connectedDevice # NULLDEV
              THEN Emit(s2, Ev("bleDisconnect", <<s2.connectedDevice>>, <<>>))
              ELSE s2
        s4 == IF w # WL_DISCONNECTED /\ w # WL_IDLE_STATUS
              THEN Emit(s3, Ev("WiFi.disconnect", <<>>, <<>>))
              ELSE s3
        s5 == Emit(s4, Ev("WiFi.begin", CStr(ssid), CStr(password)))
    IN  [s5 EXCEPT !.connectionStartTime = s.now]

\* variant: connectToNetwork() that forgets the peer as it asks for its
\* disconnection
ConnectToNetworkDropsPeer(s, ssid, password, w) ==
    IF StrEmpty(ssid) THEN s
    ELSE LET s1 == SetStatus(s, PROVISION_CONNECTING)
             s2 == Emit(s1, Ev("stopAdvertising", <<>>, <<>>))
             s3 == IF s2.connectedDevice # NULLDEV
                   THEN [Emit(s2, Ev("bleDisconnect", <<s2.connectedDevice>>, <<>>))
                            EXCEPT !.connectedDevice = NULLDEV]
                   ELSE s2
             s4 == IF w # WL_DISCONNECTED /\ w # WL_IDLE_STATUS
                   THEN Emit(s3, Ev("WiFi.disconnect", <<>>, <<>>))
                   ELSE s3
             s5 == Emit(s4, Ev("WiFi.begin", CStr(ssid), CStr(password)))
         IN  [s5 EXCEPT !.connectionStartTime = s.now]

ConnectToNetwork(s, ssid, password, w) ==
    IF StrEmpty(ssid) THEN s
    ELSE LET s1 == SetStatus(s, PROVISION_CONNECTING)
             s2 == Emit(s1, Ev("stopAdvertising", <<>>, <<>>))
             s3 == IF s2.connectedDevice # NULLDEV
                   THEN Emit(s2, Ev("bleDisconnect", <<s2.connectedDevice>>, <<>>))
                   ELSE s2
             s4 == IF w # WL_DISCONNECTED /\ w # WL_IDLE_STATUS
                   THEN Emit(s3, Ev("WiFi.disconnect", <<>>, <<>>))
                   ELSE s3
             s5 == Emit(s4, Ev("WiFi.begin", CStr(ssid), CStr(password)))
         IN  [s5 EXCEPT !.connectionStartTime = s.now]

\* variants: the last enabled entry; the first entry, enabled or not
LastEnabled(nets) ==
    LET on == {i \in 1..Len(nets) : nets[i].enabled}
    IN  IF on = {} THEN 0 ELSE CHOOSE i \in on : \A j \in on : i >= j

FirstEntry(nets) == IF Len(nets) > 0 THEN 1 ELSE 0

\* the index of the first enabled entry, or 0
FirstEnabled(nets) ==
    LET on == {i \in 1..Len(nets) : nets[i].enabled}
    IN  IF on = {} THEN 0 ELSE CHOOSE i \in on : \A j \in on : i <= j

ConnectToStoredNetworks(s, w) ==
    IF s.status = PROVISION_CONNECTING \/ s.status = PROVISION_CONNECTED
    THEN [s EXCEPT !.ret = 0]
    ELSE IF Len(s.networks) = 0 THEN [s EXCEPT !.ret = 0]
    ELSE LET i == FirstEnabled(s.networks)
         IN  IF i = 0 THEN [s EXCEPT !.ret = 0]
             ELSE LET t == ConnectToNetwork(s, s.networks[i].ssid,
                                            s.networks[i].password, w)
                  IN  [t EXCEPT !.ret = IF t.status = PROVISION_CONNECTING
                                        THEN 1 ELSE 0]

\* ------------------------------------------------------- the BLE side
\* sec: what BLESecure answers, [pairing |-> getPairingStatus(), encrypted |-> isEncrypted()]
\* variant: paired as soon as the pairing is complete, encrypted or not
IsPairedUnencrypted(s, sec) ==
    s.connectedDevice # NULLDEV /\ sec.pairing = PAIRING_COMPLETE

IsPaired(s, sec) ==
    s.connectedDevice # NULLDEV /\ sec.pairing = PAIRING_COMPLETE /\ sec.encrypted

UpdatePairingStatusCharacteristic(s, isPaired) ==
    LET pairingStatus == IF isPaired THEN PAIRING_STATUS_PAIRED
                         ELSE PAIRING_STATUS_NOT_PAIRED
    IN  IF s.subscribed
        THEN Emit(s, Ev("notify", <<PairingStatusCharHandle>>, <<pairingStatus>>))
        ELSE s

OnPairingStatusChange(s, pairing) ==
    IF pairing = PAIRING_COMPLETE THEN UpdatePairingStatusCharacteristic(s, TRUE)
    ELSE IF pairing = PAIRING_FAILED THEN UpdatePairingStatusCharacteristic(s, FALSE)
    ELSE s

BleConnectionStateCallback(s, isConnected) ==
    IF s.bleConnectionStateCallback
    THEN Emit(s, Ev("bleConnectionStateCallback", <<IF isConnected THEN 1 ELSE 0>>, <<>>))
    ELSE s

HandleDeviceConnected(s, bleStatus, device) ==
    IF bleStatus = BLE_STATUS_OK
    THEN BleConnectionStateCallback([s EXCEPT !.connectedDevice = device], TRUE)
    ELSE BleConnectionStateCallback([s EXCEPT !.connectedDevice = NULLDEV], FALSE)

\* variant: handleDeviceDisconnected() that pushes no pairing status
HandleDeviceDisconnectedSilent(s) ==
    BleConnectionStateCallback(
        [s EXCEPT !.connectedDevice = NULLDEV, !.subscribed = FALSE], FALSE)

\* variant: handleDeviceDisconnected() that makes the peripheral connectable again
HandleDeviceDisconnectedAdvertises(s) ==
    LET s1 == UpdatePairingStatusCharacteristic(s, FALSE)
        s2 == [s1 EXCEPT !.connectedDevice = NULLDEV, !.subscribed = FALSE]
    IN  Emit(BleConnectionStateCallback(s2, FALSE), Ev("startAdvertising", <<>>, <<>>))

\* BLENotify.handleDisconnection() drops the peer's subscriptions
HandleDeviceDisconnected(s) ==
    LET s1 == UpdatePairingStatusCharacteristic(s, FALSE)
        s2 == [s1 EXCEPT !.connectedDevice = NULLDEV, !.subscribed = FALSE]
    IN  BleConnectionStateCallback(s2, FALSE)

\* ------------------------------------------------------------- commands
\* variant: processCommand() whose CMD_DISCONNECT leaves the interface alone
ProcessCommandNoDisconnect(s, command, w, fs, rm) ==
    CASE command = CMD_SAVE_NETWORK ->
            IF Len(s.receivedSSID) > 0
            THEN [SaveNetwork(s, s.receivedSSID, s.receivedPassword, fs)
                    EXCEPT !.receivedSSID = <<>>, !.receivedPassword = <<>>]
            ELSE s
      [] command = CMD_CONNECT ->
            IF Len(s.receivedSSID) > 0
            THEN ConnectToNetwork(s, s.receivedSSID, s.receivedPassword, w)
            ELSE ConnectToStoredNetworks(s, w)
      [] command = CMD_CLEAR_NETWORKS -> ClearNetworks(s, rm)
      [] command = CMD_DISCONNECT -> SetStatus(s, PROVISION_IDLE)
      [] OTHER -> s

\* variant: processCommand() whose CMD_DISCONNECT leaves the status alone
ProcessCommandDisconnectKeepsStatus(s, command, w, fs, rm) ==
    CASE command = CMD_SAVE_NETWORK ->
            IF Len(s.receivedSSID) > 0
            THEN [SaveNetwork(s, s.receivedSSID, s.receivedPassword, fs)
                    EXCEPT !.receivedSSID = <<>>, !.receivedPassword = <<>>]
            ELSE s
      [] command = CMD_CONNECT ->
            IF Len(s.receivedSSID) > 0
            THEN ConnectToNetwork(s, s.receivedSSID, s.receivedPassword, w)
            ELSE ConnectToStoredNetworks(s, w)
      [] command = CMD_CLEAR_NETWORKS -> ClearNetworks(s, rm)
      [] command = CMD_DISCONNECT -> Emit(s, Ev("WiFi.disconnect", <<>>, <<>>))
      [] OTHER -> s

\* variant: processCommand() whose CMD_START_SCAN frees the interface for a scan
ProcessCommandScanDisconnects(s, command, w, fs, rm) ==
    CASE command = CMD_SAVE_NETWORK ->
            IF Len(s.receivedSSID) > 0
            THEN [SaveNetwork(s, s.receivedSSID, s.receivedPassword, fs)
                    EXCEPT !.receivedSSID = <<>>, !.receivedPassword = <<>>]
            ELSE s
      [] command = CMD_CONNECT ->
            IF Len(s.receivedSSID) > 0
            THEN ConnectToNetwork(s, s.receivedSSID, s.receivedPassword, w)
            ELSE ConnectToStoredNetworks(s, w)
      [] command = CMD_CLEAR_NETWORKS -> ClearNetworks(s, rm)
      [] command = CMD_DISCONNECT ->
            SetStatus(Emit(s, Ev("WiFi.disconnect", <<>>, <<>>)), PROVISION_IDLE)
      [] command = CMD_START_SCAN -> Emit(s, Ev("WiFi.disconnect", <<>>, <<>>))
      [] OTHER -> s

\* w, fs, rm: what WiFi.status(), the LittleFS write and LittleFS.remove() answer
\* variant: the save command keeps what was staged when saveNetwork() fails
ProcessCommandKeepsUnsaved(s, command, w, fs, rm) ==
    CASE command = CMD_SAVE_NETWORK ->
            IF Len(s.receivedSSID) > 0
            THEN LET t == SaveNetwork(s, s.receivedSSID, s.receivedPassword, fs)
                 IN  IF t.ret = 1
                     THEN [t EXCEPT !.receivedSSID = <<>>, !.receivedPassword = <<>>]
                     ELSE t
            ELSE s
      [] command = CMD_CONNECT ->
            IF Len(s.receivedSSID) > 0
            THEN ConnectToNetwork(s, s.receivedSSID, s.receivedPassword, w)
            ELSE ConnectToStoredNetworks(s, w)
      [] command = CMD_CLEAR_NETWORKS -> ClearNetworks(s, rm)
      [] command = CMD_DISCONNECT ->
            SetStatus(Emit(s, Ev("WiFi.disconnect", <<>>, <<>>)), PROVISION_IDLE)
      [] OTHER -> s

ProcessCommand(s, command, w, fs, rm) ==
    CASE command = CMD_SAVE_NETWORK ->
            IF Len(s.receivedSSID) > 0
            THEN [SaveNetwork(s, s.receivedSSID, s.receivedPassword, fs)
                    EXCEPT !.receivedSSID = <<>>, !.receivedPassword = <<>>]
            ELSE s
      [] command = CMD_CONNECT ->
            IF Len(s.receivedSSID) > 0
            THEN ConnectToNetwork(s, s.receivedSSID, s.receivedPassword, w)
            ELSE ConnectToStoredNetworks(s, w)
      [] command = CMD_CLEAR_NETWORKS -> ClearNetworks(s, rm)
      [] command = CMD_DISCONNECT ->
            SetStatus(Emit(s, Ev("WiFi.disconnect", <<>>, <<>>)), PROVISION_IDLE)
      [] OTHER -> s

\* the part of handleGattWrite() that routes the three written attributes
GattWriteAttribute(s, characteristic_id, buffer, w, fs, rm) ==
    IF characteristic_id = SsidCharHandle
    THEN [s EXCEPT !.receivedSSID = CStr(Take(buffer, MAX_SSID_LENGTH))]
    ELSE IF characteristic_id = PasswordCharHandle
    THEN [s EXCEPT !.receivedPassword = CStr(Take(buffer, MAX_PASSWORD_LENGTH))]
    ELSE IF characteristic_id = CommandCharHandle /\ Len(buffer) >= 1
    THEN ProcessCommand(s, buffer[1], w, fs, rm)
    ELSE s

\* the part that handles a write of the client configuration descriptor
GattWriteCccd(s, characteristic_id, buffer, sec) ==
    IF Len(buffer) = 2
    THEN LET char_value_handle == (characteristic_id - 1 + Half) % Half
             cccd_value == buffer[2] * 256 + buffer[1]
         IN  IF char_value_handle = PairingStatusCharHandle
             THEN IF cccd_value = 1
                  THEN UpdatePairingStatusCharacteristic(
                           [s EXCEPT !.subscribed = TRUE], IsPaired(s, sec))
                  ELSE IF cccd_value = 0
                  THEN [s EXCEPT !.subscribed = FALSE]
                  ELSE s
             ELSE s
    ELSE s

HandleGattWrite(s, characteristic_id, buffer, w, fs, rm, sec) ==
    LET s1 == GattWriteAttribute(s, characteristic_id, buffer, w, fs, rm)
        s2 == GattWriteCccd(s1, characteristic_id, buffer, sec)
    IN  [s2 EXCEPT !.ret = 0]

\* What a read hands back: the bytes put in the buffer are logged, the
\* length is returned.  bufferNull: the client asks for the length only.
ReadValue(s, value, bufferNull, buffer_size) ==
    IF bufferNull THEN [s EXCEPT !.ret = Len(value)]
    ELSE IF buffer_size < Len(value) THEN [s EXCEPT !.ret = 0]
    ELSE [Emit(s, Ev("readBuffer", value, <<>>)) EXCEPT !.ret = Len(value)]

\* variant: handleGattRead() that also serves the password attribute
HandleGattReadWithPassword(s, characteristic_id, bufferNull, buffer_size, sec) ==
    IF characteristic_id = SsidCharHandle
    THEN ReadValue(s, s.receivedSSID, bufferNull, buffer_size)
    ELSE IF characteristic_id = PasswordCharHandle
    THEN ReadValue(s, s.receivedPassword, bufferNull, buffer_size)
    ELSE IF characteristic_id = PairingStatusCharHandle
    THEN ReadValue(s, <<IF IsPaired(s, sec) THEN PAIRING_STATUS_PAIRED
                        ELSE PAIRING_STATUS_NOT_PAIRED>>, bufferNull, buffer_size)
    ELSE [s EXCEPT !.ret = 0]

HandleGattRead(s, characteristic_id, bufferNull, buffer_size, sec) ==
    IF characteristic_id = SsidCharHandle
    THEN ReadValue(s, s.receivedSSID, bufferNull, buffer_size)
    ELSE IF characteristic_id = PairingStatusCharHandle
    THEN ReadValue(s, <<IF IsPaired(s, sec) THEN PAIRING_STATUS_PAIRED
                        ELSE PAIRING_STATUS_NOT_PAIRED>>, bufferNull, buffer_size)
    ELSE [s EXCEPT !.ret = 0]

\* ------------------------------------------------------------ begin, loop
\* mounted: whether LittleFS.begin() succeeds
Begin(s, mounted) ==
    IF ~mounted THEN [s EXCEPT !.ret = 0]
    ELSE LET s1 == LoadNetworksFromFlash(s)
             s2 == UpdatePairingStatusCharacteristic(s1, FALSE)
             s3 == Emit(s2, Ev("startAdvertising", <<>>, <<>>))
         IN  [s3 EXCEPT !.begun = TRUE, !.ret = 1]

\* variants of the PROVISION_CONNECTING block: the timeout leaves the
\* interface alone; a connected interface is not noticed
PollConnectingNoDisconnect(s, w) ==
    IF s.status = PROVISION_CONNECTING
    THEN IF w = WL_CONNECTED THEN SetStatus(s, PROVISION_CONNECTED)
         ELSE IF w = WL_CONNECT_FAILED \/ w = WL_NO_SSID_AVAIL
         THEN SetStatus(s, PROVISION_FAILED)
         ELSE IF Gt32(Sub32(s.now, s.connectionStartTime), TimeoutMs)
         THEN SetStatus(s, PROVISION_FAILED)
         ELSE s
    ELSE s

PollConnectingIgnoreConnected(s, w) ==
    IF s.status = PROVISION_CONNECTING
    THEN IF w = WL_CONNECT_FAILED \/ w = WL_NO_SSID_AVAIL
         THEN SetStatus(s, PROVISION_FAILED)
         ELSE IF Gt32(Sub32(s.now, s.connectionStartTime), TimeoutMs)
         THEN Emit(SetStatus(s, PROVISION_FAILED), Ev("WiFi.disconnect", <<>>, <<>>))
         ELSE s
    ELSE s

\* variant: a failure reported while Connected fails the provisioning too
PollConnectingOrConnected(s, w) ==
    IF s.status = PROVISION_CONNECTING
    THEN IF w = WL_CONNECTED THEN SetStatus(s, PROVISION_CONNECTED)
         ELSE IF w = WL_CONNECT_FAILED \/ w = WL_NO_SSID_AVAIL
         THEN SetStatus(s, PROVISION_FAILED)
         ELSE IF Gt32(Sub32(s.now, s.connectionStartTime), TimeoutMs)
         THEN Emit(SetStatus(s, PROVISION_FAILED), Ev("WiFi.disconnect", <<>>, <<>>))
         ELSE s
    ELSE IF s.status = PROVISION_CONNECTED /\ w = WL_CONNECT_FAILED
    THEN SetStatus(s, PROVISION_FAILED)
    ELSE s

\* variant: a Connecting block that samples the interface only once time has
\* passed since the request
PollConnectingAfterGrace(s, w) ==
    IF s.status = PROVISION_CONNECTING /\ s.now # s.connectionStartTime
    THEN IF w = WL_CONNECTED THEN SetStatus(s, PROVISION_CONNECTED)
         ELSE IF w = WL_CONNECT_FAILED \/ w = WL_NO_SSID_AVAIL
         THEN SetStatus(s, PROVISION_FAILED)
         ELSE IF Gt32(Sub32(s.now, s.connectionStartTime), TimeoutMs)
         THEN Emit(SetStatus(s, PROVISION_FAILED), Ev("WiFi.disconnect", <<>>, <<>>))
         ELSE s
    ELSE s

\* variant: a Connecting block that never times the attempt out
PollConnectingNoTimeout(s, w) ==
    IF s.status = PROVISION_CONNECTING
    THEN IF w = WL_CONNECTED THEN SetStatus(s, PROVISION_CONNECTED)
         ELSE IF w = WL_CONNECT_FAILED \/ w = WL_NO_SSID_AVAIL
         THEN SetStatus(s, PROVISION_FAILED)
         ELSE s
    ELSE s

\* the PROVISION_CONNECTING block of loop(); w is this tick's WiFi.status()
PollConnecting(s, w) ==
    IF s.status = PROVISION_CONNECTING
    THEN IF w = WL_CONNECTED THEN SetStatus(s, PROVISION_CONNECTED)
         ELSE IF w = WL_CONNECT_FAILED \/ w = WL_NO_SSID_AVAIL
         THEN SetStatus(s, PROVISION_FAILED)
         ELSE IF Gt32(Sub32(s.now, s.connectionStartTime), TimeoutMs)
         THEN Emit(SetStatus(s, PROVISION_FAILED), Ev("WiFi.disconnect", <<>>, <<>>))
         ELSE s
    ELSE s

ReportWiFiStatus(s, w) ==
    IF w # s.lastReportedWiFiStatusToApp
    THEN [(IF s.wifiStatusCallback
           THEN Emit(s, Ev("wifiStatusCallback", <<w>>, <<>>))
           ELSE s) EXCEPT !.lastReportedWiFiStatusToApp = w]
    ELSE s

\* variant: the loss is looked for with the bookkeeping of the application's
\* callback, which the callback block has just brought up to date
DetectConnectionLossSharedBookkeeping(s, w) ==
    IF w # s.lastReportedWiFiStatusToApp
    THEN [(IF (w = WL_DISCONNECTED \/ w = WL_CONNECTION_LOST)
               /\ s.status = PROVISION_CONNECTED
           THEN SetStatus(s, PROVISION_IDLE)
           ELSE s) EXCEPT !.internalLastWiFiState = w]
    ELSE [s EXCEPT !.internalLastWiFiState = w]

\* variant: a dropped interface also takes a failed attempt back to Idle
DetectConnectionLossOrFailure(s, w) ==
    IF w # s.internalLastWiFiState
    THEN [(IF (w = WL_DISCONNECTED \/ w = WL_CONNECTION_LOST)
               /\ (s.status = PROVISION_CONNECTED \/ s.status = PROVISION_FAILED)
           THEN SetStatus(s, PROVISION_IDLE)
           ELSE s) EXCEPT !.internalLastWiFiState = w]
    ELSE s

DetectConnectionLoss(s, w) ==
    IF w # s.internalLastWiFiState
    THEN [(IF (w = WL_DISCONNECTED \/ w = WL_CONNECTION_LOST)
               /\ s.status = PROVISION_CONNECTED
           THEN SetStatus(s, PROVISION_IDLE)
           ELSE s) EXCEPT !.internalLastWiFiState = w]
    ELSE s

Loop(s, w) ==
    [DetectConnectionLoss(ReportWiFiStatus(PollConnecting(s, w), w), w)
        EXCEPT !.ret = 0 - 1]

\* ------------------------------------------------------------- harness
\* The object's fields and the environment it reads, as one record; the log
\* of the handler about to run starts empty.
Cur ==
    [status |-> status, networks |-> networks, receivedSSID |-> receivedSSID,
     receivedPassword |-> receivedPassword, connectedDevice |-> connectedDevice,
     connectionStartTime |-> connectionStartTime,
     statusCallback |-> statusCallback, wifiStatusCallback |-> wifiStatusCallback,
     bleConnectionStateCallback |-> bleConnectionStateCallback,
     lastReportedWiFiStatusToApp |-> lastReportedWiFiStatusToApp,
     internalLastWiFiState |-> internalLastWiFiState,
     begun |-> begun, file |-> file, subscribed |-> subscribed, now |-> now,
     out |-> <<>>, ret |-> 0 - 1]

\* the second run, about to run the same handler
NoTwin == [status |-> 0 - 1]

TwinCur == twin

\* the statuses a handler passed to the status callback, in order
RECURSIVE StatusCalls(_)
StatusCalls(log) ==
    IF log = <<>> THEN <<>>
    ELSE IF Head(log).op = "statusCallback"
    THEN <<Head(log).a[1]>> \o StatusCalls(Tail(log))
    ELSE StatusCalls(Tail(log))

\* delivered: not kept by this specification / no call since the callback was set
NotTracked == 0 - 2
NotDelivered == 0 - 1

Delivered(old, log) ==
    IF old = NotTracked THEN NotTracked
    ELSE IF log = <<Ev("setStatusCallback", <<>>, <<>>)>> THEN NotDelivered
    ELSE IF StatusCalls(log) = <<>> THEN old
    ELSE StatusCalls(log)[Len(StatusCalls(log))]

\* One handler has run: t is the object after it, u the second run after the
\* same handler (kept only by the specification that compares two runs).
Step(t, u) ==
    /\ status' = t.status
    /\ networks' = t.networks
    /\ receivedSSID' = t.receivedSSID
    /\ receivedPassword' = t.receivedPassword
    /\ connectedDevice' = t.connectedDevice
    /\ connectionStartTime' = t.connectionStartTime
    /\ statusCallback' = t.statusCallback
    /\ wifiStatusCallback' = t.wifiStatusCallback
    /\ bleConnectionStateCallback' = t.bleConnectionStateCallback
    /\ lastReportedWiFiStatusToApp' = t.lastReportedWiFiStatusToApp
    /\ internalLastWiFiState' = t.internalLastWiFiState
    /\ begun' = t.begun
    /\ file' = t.file
    /\ subscribed' = t.subscribed
    /\ now' = t.now
    /\ delivered' = Delivered(delivered, t.out)
    /\ twin' = IF twin = NoTwin THEN NoTwin ELSE [u EXCEPT !.out = <<>>, !.ret = 0 - 1]

\* the object a finished handler leaves to the next one
After(t) == [t EXCEPT !.out = <<>>, !.ret = 0 - 1]

Secure(sec) == sec.pairing = PAIRING_COMPLETE /\ sec.encrypted

\* ----------------------------------------------------------------- inputs
MaxAdvances == 1

NameA == <<65>>
NameB == <<66>>
PassP == <<112>>
PassQ == <<113>>

WiFiSamples ==
    {WL_IDLE_STATUS, WL_NO_SSID_AVAIL, WL_CONNECTED, WL_CONNECT_FAILED,
     WL_CONNECTION_LOST, WL_DISCONNECTED}

\* how a join ends, and a link lost afterwards
JoinSamples == {WL_CONNECTED, WL_CONNECT_FAILED, WL_DISCONNECTED}

\* the answers of WiFi.status() connectToNetwork() tells apart
ConnectSamples == {WL_IDLE_STATUS, WL_DISCONNECTED, WL_CONNECTED}

SecAnswers ==
    {[pairing |-> PAIRING_COMPLETE, encrypted |-> TRUE],
     [pairing |-> PAIRING_STARTED, encrypted |-> FALSE]}

CccdHandle == PairingStatusCharHandle + 1

CommandWrites(cmds) == {CommandCharHandle} \X {<<c>> : c \in cmds}

\* What a specification feeds the handlers with:
\*   writes   the writes a peer sends, (attribute, value)
\*   fs       what LittleFS does with a write of the artifact
\*   rm       whether LittleFS.remove() removes it
\*   names    the ssid the application passes to connectToNetwork()
\*   pass     the passwords the application passes
\*   files    the artifact found at boot
Core ==
    [writes |-> ({SsidCharHandle} \X {<<>>, NameA})
                \cup ({PasswordCharHandle} \X {PassP})
                \cup CommandWrites(1..7)
                \cup ({CommandCharHandle} \X {<<>>})
                \cup ({UnknownHandle} \X {NameA}),
     fs |-> {"ok"},
     rm |-> {TRUE},
     names |-> {NULLSTR, <<>>, NameB},
     pass |-> {PassQ},
     files |-> {NoFile,
                JsonFile(<<JsonNet(NameA, PassP, "false"),
                           JsonNet(NameB, PassQ, "true")>>),
                JsonFile(<<JsonNet(NameA, PassP, "false")>>)}]

\* What the collaborators answer during one write: WiFi.status(), the
\* LittleFS write, LittleFS.remove().  Only the answers the handler asks for
\* are varied.
Ans(w, fs, rm) == [w |-> w, fs |-> fs, rm |-> rm]

AnswersFor(P, characteristic_id, buffer) ==
    IF characteristic_id # CommandCharHandle \/ Len(buffer) = 0
    THEN {Ans(WL_IDLE_STATUS, "ok", TRUE)}
    ELSE CASE buffer[1] = CMD_SAVE_NETWORK ->
                {Ans(WL_IDLE_STATUS, fs, TRUE) : fs \in P.fs}
           [] buffer[1] = CMD_CONNECT ->
                {Ans(w, "ok", TRUE) : w \in ConnectSamples}
           [] buffer[1] = CMD_CLEAR_NETWORKS ->
                {Ans(WL_IDLE_STATUS, "ok", rm) : rm \in P.rm}
           [] OTHER -> {Ans(WL_IDLE_STATUS, "ok", TRUE)}

\* The inputs of the specification that compares two runs: two passphrases
\* to write, pass and find stored.
NI ==
    [writes |-> ({SsidCharHandle} \X {NameA})
                \cup ({PasswordCharHandle} \X {PassP, PassQ})
                \cup CommandWrites({CMD_SAVE_NETWORK, CMD_CONNECT, CMD_CLEAR_NETWORKS}),
     fs |-> {"ok"},
     rm |-> {TRUE},
     names |-> {NameB},
     pass |-> {PassP, PassQ},
     files |-> {NoFile, JsonFile(<<JsonNet(NameA, PassP, "true")>>)}]

\* names and passphrases at and one past the limits of the fields
Name32 == [i \in 1..MAX_SSID_LENGTH |-> 78]
Name33 == Name32 \o <<79>>
Pass64 == [i \in 1..MAX_PASSWORD_LENGTH |-> 80]
Pass65 == Pass64 \o <<81>>

\* an artifact listing more entries than the store holds, one of them disabled
SixFile ==
    JsonFile([i \in 1..(MAX_WIFI_NETWORKS + 1) |->
                 JsonNet(<<64 + i>>, PassP, IF i = 2 THEN "false" ELSE "true")])

\* an artifact with an entry without a name, one with an empty name, one
\* without a password and one without the enabled member
OddFile ==
    JsonFile(<<JsonNet(NULLSTR, PassP, "true"), JsonNet(<<>>, PassP, "true"),
               JsonNet(NameA, NULLSTR, "false"), JsonNet(NameB, PassQ, "absent")>>)

\* The inputs of the specification of the store: saves and clears by the
\* application and by the peer, names and passphrases at and past the
\* limits, every kind of artifact at boot; LittleFS writes what it is given.
Store ==
    [writes |-> ({SsidCharHandle} \X {<<>>, NameA, Name33})
                \cup ({PasswordCharHandle} \X {PassP})
                \cup CommandWrites({CMD_SAVE_NETWORK, CMD_CLEAR_NETWORKS}),
     fs |-> {"ok"},
     rm |-> BOOLEAN,
     names |-> {NULLSTR, <<>>, NameB, Name32, Name33},
     pass |-> {Pass65},
     files |-> {NoFile, BadFile, BigFile, SixFile, OddFile}]

\* The inputs of the specification of the BLE side: a peer that subscribes
\* to and unsubscribes from the pairing status, stages a name and has the
\* device connect and disconnect.
Ble ==
    [writes |-> ({SsidCharHandle} \X {NameA})
                \cup ({CccdHandle} \X {<<1, 0>>, <<0, 0>>, <<2, 0>>})
                \cup CommandWrites({CMD_CONNECT, CMD_DISCONNECT}),
     fs |-> {"ok"},
     rm |-> {TRUE},
     names |-> {NameB},
     pass |-> {PassQ},
     files |-> {NoFile, JsonFile(<<JsonNet(NameB, PassQ, "true")>>)}]

\* the value the second run is written: another passphrase, the same anything else
TwinBuffers(P, characteristic_id, buffer) ==
    IF twin # NoTwin /\ characteristic_id = PasswordCharHandle
    THEN {wr[2] : wr \in {x \in P.writes : x[1] = PasswordCharHandle}}
    ELSE {buffer}

TwinPass(P, password) == IF twin # NoTwin THEN P.pass ELSE {password}

\* what WiFi.status() answers the second run: whether a join succeeds depends
\* on the passphrase, so the answers of the two runs are unrelated
TwinSamples(w) == IF twin # NoTwin THEN JoinSamples ELSE {w}

\* the artifact the second run finds at boot: the same names and flags,
\* any passphrases
TwinFiles(P, f) ==
    IF f.kind # "json" THEN {f}
    ELSE {JsonFile([i \in 1..Len(f.nets) |-> [f.nets[i] EXCEPT !.password = pw[i]]]) :
             pw \in [1..Len(f.nets) -> P.pass]}

\* the reads a peer sends: attribute, length query or not, room in the buffer
Reads ==
    {SsidCharHandle, PasswordCharHandle, CommandCharHandle,
     PairingStatusCharHandle, UnknownHandle} \X BOOLEAN \X {0, 1, MAX_PASSWORD_LENGTH}

TimeSteps == {WIFI_CONNECT_TIMEOUT_MS, WIFI_CONNECT_TIMEOUT_MS + 1}

Boot == U32(0, 0)

\* ------------------------------------------------------------------- Init
\* The object as its constructor leaves it (lines 29-58), the statics of
\* loop() as initialised, and the environment at boot.
InitObject ==
    /\ status = PROVISION_IDLE
    /\ networks = <<>>
    /\ receivedSSID = <<>>
    /\ receivedPassword = <<>>
    /\ connectedDevice = NULLDEV
    /\ connectionStartTime = U32(0, 0)
    /\ statusCallback = FALSE
    /\ wifiStatusCallback = FALSE
    /\ bleConnectionStateCallback = FALSE
    /\ lastReportedWiFiStatusToApp = WL_NO_SHIELD
    /\ internalLastWiFiState = WL_NO_SHIELD
    /\ begun = FALSE
    /\ subscribed = FALSE
    /\ now = Boot
    /\ advances = 0

Init ==
    /\ InitObject
    /\ file \in Core.files
    /\ delivered = NotTracked
    /\ twin = NoTwin

\* ---------------------------------------------------------------- actions
\* begin(): once, before anything else reaches the object
DoBegin ==
    /\ ~begun
    /\ \E mounted \in BOOLEAN :
          Step(Begin(Cur, mounted), Begin(TwinCur, mounted))
    /\ UNCHANGED advances

SetStatusCallback(s, callback) ==
    Emit([s EXCEPT !.statusCallback = callback], Ev("setStatusCallback", <<>>, <<>>))

DoSetStatusCallback ==
    /\ \E cb \in BOOLEAN :
          /\ Step(SetStatusCallback(Cur, cb), SetStatusCallback(TwinCur, cb))
    /\ UNCHANGED advances

\* millis() moves on between two handlers
AdvanceTime ==
    /\ advances < MaxAdvances
    /\ \E d \in TimeSteps :
          Step([Cur EXCEPT !.now = Add32(now, d)],
               [TwinCur EXCEPT !.now = Add32(now, d)])
    /\ advances' = advances + 1

DoLoop(S) ==
    /\ begun
    /\ \E w \in S :
       \E w2 \in TwinSamples(w) :
          Step(Loop(Cur, w), Loop(TwinCur, w2))
    /\ UNCHANGED advances

DoConnectToNetwork(P) ==
    /\ begun
    /\ \E ssid \in P.names, password \in P.pass, w \in ConnectSamples :
       \E password2 \in TwinPass(P, password) :
          Step(ConnectToNetwork(Cur, ssid, password, w),
               ConnectToNetwork(TwinCur, ssid, password2, w))
    /\ UNCHANGED advances

DoConnectToStoredNetworks ==
    /\ begun
    /\ \E w \in ConnectSamples :
          Step(ConnectToStoredNetworks(Cur, w), ConnectToStoredNetworks(TwinCur, w))
    /\ UNCHANGED advances

\* a link comes up (or fails to) while none is up
DoHandleDeviceConnected ==
    /\ begun
    /\ connectedDevice = NULLDEV
    /\ \E bleStatus \in {BLE_STATUS_OK, BLE_STATUS_CONNECTION_ERROR} :
          Step(HandleDeviceConnected(Cur, bleStatus, Device),
               HandleDeviceConnected(TwinCur, bleStatus, Device))
    /\ UNCHANGED advances

DoHandleDeviceDisconnected ==
    /\ begun
    /\ connectedDevice # NULLDEV
    /\ Step(HandleDeviceDisconnected(Cur), HandleDeviceDisconnected(TwinCur))
    /\ UNCHANGED advances

\* a write from the linked peer, with what the collaborators answer meanwhile
DoHandleGattWrite(P) ==
    /\ begun
    /\ connectedDevice # NULLDEV
    /\ \E wr \in P.writes, sec \in SecAnswers :
       \E ans \in AnswersFor(P, wr[1], wr[2]), buffer2 \in TwinBuffers(P, wr[1], wr[2]) :
          Step(HandleGattWrite(Cur, wr[1], wr[2], ans.w, ans.fs, ans.rm, sec),
               HandleGattWrite(TwinCur, wr[1], buffer2, ans.w, ans.fs, ans.rm, sec))
    /\ UNCHANGED advances

SetBLEConnectionStateCallback(s, callback) ==
    [s EXCEPT !.bleConnectionStateCallback = callback]

DoSetBLEConnectionStateCallback ==
    /\ \E cb \in BOOLEAN :
          Step(SetBLEConnectionStateCallback(Cur, cb),
               SetBLEConnectionStateCallback(TwinCur, cb))
    /\ UNCHANGED advances

SetWiFiStatusCallback(s, callback) == [s EXCEPT !.wifiStatusCallback = callback]

DoSetWiFiStatusCallback ==
    /\ \E cb \in BOOLEAN :
          Step(SetWiFiStatusCallback(Cur, cb), SetWiFiStatusCallback(TwinCur, cb))
    /\ UNCHANGED advances

\* BLESecure reports a change of the pairing with the linked peer
DoOnPairingStatusChange ==
    /\ begun
    /\ connectedDevice # NULLDEV
    /\ \E pairing \in {PAIRING_IDLE, PAIRING_STARTED, PAIRING_COMPLETE, PAIRING_FAILED} :
          Step(OnPairingStatusChange(Cur, pairing), OnPairingStatusChange(TwinCur, pairing))
    /\ UNCHANGED advances

\* saveNetwork() and clearNetworks() called by the application
DoSaveNetwork(P) ==
    /\ begun
    /\ \E ssid \in P.names, password \in P.pass, fs \in P.fs :
       \E password2 \in TwinPass(P, password) :
          Step(SaveNetwork(Cur, ssid, password, fs),
               SaveNetwork(TwinCur, ssid, password2, fs))
    /\ UNCHANGED advances

DoClearNetworks(P) ==
    /\ begun
    /\ \E rm \in P.rm :
          Step(ClearNetworks(Cur, rm), ClearNetworks(TwinCur, rm))
    /\ UNCHANGED advances

\* a read from the linked peer
DoHandleGattRead ==
    /\ begun
    /\ connectedDevice # NULLDEV
    /\ \E rd \in Reads, sec \in SecAnswers :
          Step([HandleGattRead(Cur, rd[1], rd[2], rd[3], sec) EXCEPT !.out = <<>>],
               [HandleGattRead(TwinCur, rd[1], rd[2], rd[3], sec) EXCEPT !.out = <<>>])
    /\ UNCHANGED advances

\* ------------------------------------------------------- specifications
\* Spec: the orchestrator, driven by the application (begin, connect calls,
\* ticks) and by one peer writing the three attributes.
Next ==
    \/ DoBegin
    \/ DoSetStatusCallback
    \/ AdvanceTime
    \/ DoLoop(WiFiSamples)
    \/ DoConnectToNetwork(Core)
    \/ DoConnectToStoredNetworks
    \/ DoHandleDeviceConnected
    \/ DoHandleDeviceDisconnected
    \/ DoHandleGattWrite(Core)
    \/ DoHandleGattRead

Spec == Init /\ [][Next]_vars

\* SpecCb: the same, keeping what the status callback was last called with
\* since it was set.
InitCb ==
    /\ InitObject
    /\ file \in Core.files
    /\ delivered = NotDelivered
    /\ twin = NoTwin

SpecCb == InitCb /\ [][Next]_vars

\* SpecStore: the credential store, saved to and cleared by the application
\* and by one peer, over every kind of artifact found at boot.
InitStore ==
    /\ InitObject
    /\ file \in Store.files
    /\ delivered = NotTracked
    /\ twin = NoTwin

NextStore ==
    \/ DoBegin
    \/ DoSaveNetwork(Store)
    \/ DoClearNetworks(Store)
    \/ DoHandleDeviceConnected
    \/ DoHandleDeviceDisconnected
    \/ DoHandleGattWrite(Store)

SpecStore == InitStore /\ [][NextStore]_vars

\* SpecOwn: the same, on a device whose artifact only this program wrote.
InitOwn ==
    /\ InitObject
    /\ file = NoFile
    /\ delivered = NotTracked
    /\ twin = NoTwin

SpecOwn == InitOwn /\ [][NextStore]_vars

\* SpecBle: the BLE side: one peer linking, subscribing, pairing, commanding
\* and leaving, while joins succeed, fail and are lost.
InitBle ==
    /\ InitObject
    /\ file \in Ble.files
    /\ delivered = NotTracked
    /\ twin = NoTwin

NextBle ==
    \/ DoBegin
    \/ DoSetBLEConnectionStateCallback
    \/ AdvanceTime
    \/ DoLoop(JoinSamples)
    \/ DoHandleDeviceConnected
    \/ DoHandleDeviceDisconnected
    \/ DoOnPairingStatusChange
    \/ DoHandleGattWrite(Ble)
    \/ DoHandleGattRead

SpecBle == InitBle /\ [][NextBle]_vars

\* SpecNI: two runs of the orchestrator side by side.  Both get the same
\* calls, events, names and commands (no status callback is set, since a read
\* calls none, and the clock stands, since a timeout ends an attempt as a
\* failed join does); the passphrases written, passed and
\* found stored differ freely, and so do the answers of WiFi.status() in loop().
\* the network side: every sample of WiFi.status(), the application's
\* network-status callback set and unset
NextWiFi ==
    \/ DoBegin
    \/ DoSetWiFiStatusCallback
    \/ DoLoop(WiFiSamples)
    \/ DoConnectToNetwork(Ble)
    \/ DoHandleDeviceConnected
    \/ DoHandleDeviceDisconnected
    \/ DoHandleGattWrite(Ble)

SpecWiFi == InitBle /\ [][NextWiFi]_vars

\* The sketch's loop() calls the object's loop() on every pass (example,
\* lines 272-348) while millis() runs on.  Time passes in quarters of the
\* counter's range, so that the counter wraps within a few steps; advances
\* counts the time steps since the last tick, and a tick comes before the
\* counter has gone round once.
LiveStep == (Half \div 4) * Half

LiveAdvance ==
    /\ advances < MaxAdvances
    /\ Step([Cur EXCEPT !.now = Add32(now, LiveStep)],
            [TwinCur EXCEPT !.now = Add32(now, LiveStep)])
    /\ advances' = advances + 1

LiveTick ==
    /\ begun
    /\ \E w \in WiFiSamples : Step(Loop(Cur, w), Loop(TwinCur, w))
    /\ advances' = 0

NextLive ==
    \/ DoBegin
    \/ LiveAdvance
    \/ LiveTick
    \/ DoConnectToNetwork(Ble)
    \/ DoHandleDeviceConnected
    \/ DoHandleDeviceDisconnected
    \/ DoHandleGattWrite(Ble)

\* SpecWrap: the device has been up for almost the range of millis() when
\* begin() is called, so that the attempts made afterwards straddle the wrap
\* of the counter.
UpTimes ==
    {U32(Half - 1, Half - 1),
     U32(Half - 1, Half - WIFI_CONNECT_TIMEOUT_MS),
     U32(Half - 1, Half - WIFI_CONNECT_TIMEOUT_MS - 1)}

RunUp ==
    /\ ~begun
    /\ now = Boot
    /\ \E up \in UpTimes :
          Step([Cur EXCEPT !.now = up], [TwinCur EXCEPT !.now = up])
    /\ UNCHANGED advances

NextWrap ==
    \/ DoBegin
    \/ RunUp
    \/ AdvanceTime
    \/ DoLoop(WiFiSamples)
    \/ DoConnectToNetwork(Ble)
    \/ DoHandleDeviceConnected
    \/ DoHandleDeviceDisconnected
    \/ DoHandleGattWrite(Ble)

SpecWrap == InitBle /\ [][NextWrap]_vars

\* ticks keep occurring and time keeps advancing
SpecLive ==
    /\ InitBle
    /\ [][NextLive]_vars
    /\ WF_vars(LiveTick)
    /\ WF_vars(LiveAdvance)

InitNI ==
    /\ InitObject
    /\ file \in NI.files
    /\ delivered = NotTracked
    /\ \E f \in TwinFiles(NI, file) : twin = [Cur EXCEPT !.file = f]

NextNI ==
    \/ DoBegin
    \/ DoLoop(JoinSamples)
    \/ DoConnectToNetwork(NI)
    \/ DoConnectToStoredNetworks
    \/ DoHandleDeviceConnected
    \/ DoHandleDeviceDisconnected
    \/ DoHandleGattWrite(NI)
    \/ DoHandleGattRead

SpecNI == InitNI /\ [][NextNI]_vars

\* ------------------------------------------------------------ properties
\* the requests of one kind a handler made, in order
RECURSIVE Requests(_, _)
Requests(log, op) ==
    IF log = <<>> THEN <<>>
    ELSE IF Head(log).op = op
    THEN <<Head(log)>> \o Requests(Tail(log), op)
    ELSE Requests(Tail(log), op)

\* what a handler did to the state a peer's write can reach
SameProvisioningState(t) ==
    /\ t.status = status
    /\ t.networks = networks
    /\ t.file = file
    /\ t.receivedSSID = receivedSSID
    /\ t.receivedPassword = receivedPassword

NoWiFiRequest(t) ==
    /\ Requests(t.out, "WiFi.begin") = <<>>
    /\ Requests(t.out, "WiFi.disconnect") = <<>>

\* the outcomes of every write the linked peer can send in this state
\* while BLESecure answers sec
WriteOutcomes(sec) ==
    {HandleGattWrite(Cur, wr[1], wr[2], ans.w, ans.fs, ans.rm, sec) :
        <<wr, ans>> \in {x \in Core.writes \X {Ans(w, fs, rm) :
                              w \in ConnectSamples, fs \in Core.fs, rm \in Core.rm} :
                              x[2] \in AnswersFor(Core, x[1][1], x[1][2])}}

\* C1, as the documentation states it: a write of the name, passphrase or
\* command attribute takes effect only while the link is paired and encrypted;
\* on a link that is not, it changes neither the staged credentials, the
\* store, the artifact nor the provisioning state and requests nothing of the
\* WiFi interface.  handleGattWrite() never asks BLESecure, so this fails.
C1_WritesNeedPairedLink ==
    (begun /\ connectedDevice # NULLDEV) =>
        \A sec \in SecAnswers :
            ~Secure(sec) =>
                (\A t \in WriteOutcomes(sec) :
                    SameProvisioningState(t) /\ NoWiFiRequest(t))

\* what the peer gets from a read: the length returned and the bytes put in
\* its buffer
ReadResult(t) == [ret |-> t.ret, bytes |-> Requests(t.out, "readBuffer")]

\* C2: two runs that got the same calls, events, names and commands and
\* differ only in passphrase values (written, passed or found stored) return
\* the same result, length and bytes, for every attribute read of any
\* attribute id and any buffer size.
C2_ReadsIndependentOfPassphrase ==
    twin # NoTwin =>
        \A rd \in Reads, sec \in SecAnswers :
            ReadResult(HandleGattRead(Cur, rd[1], rd[2], rd[3], sec))
                = ReadResult(HandleGattRead(TwinCur, rd[1], rd[2], rd[3], sec))

\* C2 happens: a peer is linked, the two runs hold different staged and
\* different stored passphrases, and a read hands bytes back
C2_Witness ==
    /\ twin # NoTwin
    /\ begun /\ connectedDevice # NULLDEV
    /\ receivedPassword # twin.receivedPassword
    /\ Len(networks) > 0 /\ Len(twin.networks) = Len(networks)
    /\ networks[1].password # twin.networks[1].password
    /\ receivedSSID # <<>>
    /\ \E rd \in Reads, sec \in SecAnswers :
          ReadResult(HandleGattRead(Cur, rd[1], rd[2], rd[3], sec)).bytes
              = <<Ev("readBuffer", receivedSSID, <<>>)>>

\* the outcomes of every call, tick and write that can reach setStatus() in
\* this state
StatusOutcomes ==
    {Loop(Cur, w) : w \in WiFiSamples}
    \cup {ConnectToNetwork(Cur, ssid, password, w) :
              <<ssid, password, w>> \in Core.names \X Core.pass \X ConnectSamples}
    \cup {ConnectToStoredNetworks(Cur, w) : w \in ConnectSamples}
    \cup UNION {WriteOutcomes(sec) : sec \in SecAnswers}

\* C3: while a status callback is registered, a handler calls it exactly
\* once, with the new status, if it changes the provisioning status and not at
\* all if the status it asks for is the current one; so the callback is never
\* called with the value of its previous call.
C3_CallbackOncePerChange ==
    \A t \in StatusOutcomes :
        /\ StatusCalls(t.out) = IF statusCallback /\ t.status # status
                                 THEN <<t.status>> ELSE <<>>
        /\ \A k \in 1..Len(StatusCalls(t.out)) : StatusCalls(t.out)[k] # delivered

\* C3 happens: the callback was last called with Connecting; a tick now
\* calls it with Failed, and a connect request, asking for the status there
\* is, joins without calling it
C3_Witness ==
    /\ statusCallback
    /\ status = PROVISION_CONNECTING
    /\ delivered = PROVISION_CONNECTING
    /\ \E w \in WiFiSamples : StatusCalls(Loop(Cur, w).out) = <<PROVISION_FAILED>>
    /\ LET t == ConnectToNetwork(Cur, NameB, PassQ, WL_IDLE_STATUS)
       IN  Requests(t.out, "WiFi.begin") # <<>> /\ StatusCalls(t.out) = <<>>

\* an attempt was started: the status is Connecting, the callback (if any)
\* was called once with it, one join was requested with this name and passphrase
ConnectsOnce(t, ssid, password) ==
    /\ t.status = PROVISION_CONNECTING
    /\ StatusCalls(t.out) = IF statusCallback THEN <<PROVISION_CONNECTING>> ELSE <<>>
    /\ Requests(t.out, "WiFi.begin") = <<Ev("WiFi.begin", ssid, password)>>

\* the Connect command as the linked peer writes it
ConnectCommand(w, sec) ==
    HandleGattWrite(Cur, CommandCharHandle, <<CMD_CONNECT>>, w, "ok", TRUE, sec)

\* C4: from Idle, connectToNetwork() with a non-empty name, and the Connect
\* command with a staged name, move the status to Connecting with one status
\* callback and request one join with that name and passphrase;
\* connectToNetwork() with an empty or absent name changes nothing and
\* requests nothing, in any status.
C4_ConnectFromIdle ==
    /\ status = PROVISION_IDLE =>
          /\ \A ssid \in Core.names, password \in Core.pass, w \in ConnectSamples :
                ~StrEmpty(ssid) =>
                    ConnectsOnce(ConnectToNetwork(Cur, ssid, password, w), ssid, password)
          /\ receivedSSID # <<>> =>
                \A w \in ConnectSamples, sec \in SecAnswers :
                    ConnectsOnce(ConnectCommand(w, sec), receivedSSID, receivedPassword)
    /\ \A ssid \in {NULLSTR, <<>>}, password \in Core.pass, w \in ConnectSamples :
          ConnectToNetwork(Cur, ssid, password, w) = Cur

\* C4 happens: Idle, a callback registered, a peer linked with a name staged,
\* and its Connect command starts the attempt
C4_Witness ==
    /\ begun /\ status = PROVISION_IDLE /\ statusCallback
    /\ connectedDevice # NULLDEV /\ receivedSSID = NameA /\ receivedPassword = PassP
    /\ ConnectCommand(WL_IDLE_STATUS, CHOOSE sec \in SecAnswers : TRUE).status
          = PROVISION_CONNECTING

\* more than the timeout has passed since the attempt began
TimedOut ==
    /\ status = PROVISION_CONNECTING
    /\ Gt32(Sub32(now, connectionStartTime), TimeoutMs)

\* the answers of WiFi.status() that settle nothing
Unresolved == WiFiSamples \ {WL_CONNECTED, WL_CONNECT_FAILED, WL_NO_SSID_AVAIL}

\* C5: the tick that finds a Connecting attempt past its timeout, the
\* interface reporting neither connected nor failed, moves the status to
\* Failed and requests exactly one WiFi disconnect; no tick asks for one
\* before the timeout, and none while the status stays Failed.
C5_TimeoutFailsAndDisconnectsOnce ==
    /\ TimedOut =>
          \A w \in Unresolved :
              /\ Loop(Cur, w).status = PROVISION_FAILED
              /\ Len(Requests(Loop(Cur, w).out, "WiFi.disconnect")) = 1
    /\ (status = PROVISION_CONNECTING /\ ~TimedOut) =>
          \A w \in WiFiSamples : Requests(Loop(Cur, w).out, "WiFi.disconnect") = <<>>
    /\ status = PROVISION_FAILED =>
          \A w \in WiFiSamples :
              /\ Loop(Cur, w).status = PROVISION_FAILED
              /\ Requests(Loop(Cur, w).out, "WiFi.disconnect") = <<>>

\* C5 happens: an attempt is past its timeout and the tick fails it
C5_Witness ==
    /\ TimedOut
    /\ Loop(Cur, WL_DISCONNECTED).status = PROVISION_FAILED
    /\ Loop(Cur, WL_DISCONNECTED).out # <<>>

\* C6: a tick that finds the interface connected while the status is
\* Connecting moves the status to Connected and calls the status callback
\* once, with Connected.
C6_ConnectedWhileConnecting ==
    status = PROVISION_CONNECTING =>
        /\ Loop(Cur, WL_CONNECTED).status = PROVISION_CONNECTED
        /\ StatusCalls(Loop(Cur, WL_CONNECTED).out)
              = IF statusCallback THEN <<PROVISION_CONNECTED>> ELSE <<>>

\* C6 happens: Connecting with a callback registered, and the tick connects
C6_Witness ==
    /\ status = PROVISION_CONNECTING /\ statusCallback
    /\ StatusCalls(Loop(Cur, WL_CONNECTED).out) = <<PROVISION_CONNECTED>>

\* the enabled entries after the first enabled one
LaterEnabled ==
    {j \in 1..Len(networks) :
        networks[j].enabled /\ \E i \in 1..(j - 1) : networks[i].enabled}

JoinsOneOf(t, js) ==
    \E j \in js :
        Requests(t.out, "WiFi.begin")
            = <<Ev("WiFi.begin", networks[j].ssid, networks[j].password)>>

\* C7, as the header documents connectToStoredNetworks() ("try each one
\* until successful"): when the attempt it started ends in failure and another
\* enabled entry is stored, an attempt on a later enabled entry is made, by
\* the tick that sees the failure or by the next call.  Neither does: the
\* tick requests no join and the next call joins the first entry again.
C7_TriesEachStoredNetwork ==
    \A w \in ConnectSamples, wf \in {WL_CONNECT_FAILED, WL_NO_SSID_AVAIL} :
        LET t == ConnectToStoredNetworks(Cur, w)
            u == Loop(After(t), wf)
            v == ConnectToStoredNetworks(After(u), w)
        IN  (t.ret = 1 /\ LaterEnabled # {}) =>
                JoinsOneOf(u, LaterEnabled) \/ JoinsOneOf(v, LaterEnabled)

\* entry i is enabled and no entry before it is
IsFirstEnabled(i) ==
    /\ i \in 1..Len(networks)
    /\ networks[i].enabled
    /\ \A j \in 1..(i - 1) : ~networks[j].enabled

Busy == status = PROVISION_CONNECTING \/ status = PROVISION_CONNECTED

\* what C8 asks of one run of connectToStoredNetworks(): an attempt is
\* started exactly when the object is not busy and an enabled entry exists; it
\* leaves the status Connecting and requests one join, with the name and
\* passphrase of the first enabled entry; without an attempt the status stays
StoredAttempt(t) ==
    LET joins == Requests(t.out, "WiFi.begin")
    IN  /\ (joins # <<>>) <=> (~Busy /\ \E i \in 1..Len(networks) : IsFirstEnabled(i))
        /\ joins # <<>> =>
              /\ t.status = PROVISION_CONNECTING
              /\ \E i \in 1..Len(networks) :
                    /\ IsFirstEnabled(i)
                    /\ joins = <<Ev("WiFi.begin", networks[i].ssid, networks[i].password)>>
        /\ joins = <<>> => t.status = status

\* C8: connectToStoredNetworks(), called directly or by a Connect command
\* with no name staged, attempts the first enabled entry in insertion order:
\* status Connecting, one join with exactly that entry's name and passphrase;
\* the direct call returns true if and only if it started an attempt.
C8_ConnectsToFirstEnabled ==
    \A w \in ConnectSamples :
        /\ StoredAttempt(ConnectToStoredNetworks(Cur, w))
        /\ (ConnectToStoredNetworks(Cur, w).ret = 1)
              <=> (Requests(ConnectToStoredNetworks(Cur, w).out, "WiFi.begin") # <<>>)
        /\ ConnectToStoredNetworks(Cur, w).ret \in {0, 1}
        /\ receivedSSID = <<>> =>
              \A sec \in SecAnswers : StoredAttempt(ConnectCommand(w, sec))

\* C8 happens: the store holds a disabled entry and then an enabled one, and
\* the call joins the second
C8_Witness ==
    /\ begun /\ status = PROVISION_IDLE
    /\ Len(networks) = 2 /\ ~networks[1].enabled /\ networks[2].enabled
    /\ LET t == ConnectToStoredNetworks(Cur, WL_IDLE_STATUS)
       IN  /\ t.ret = 1
           /\ Requests(t.out, "WiFi.begin") = <<Ev("WiFi.begin", NameB, PassQ)>>

\* C9: with an empty store, or none of its entries enabled,
\* connectToStoredNetworks() returns false and does nothing else: the status
\* and everything else stay, no callback is called, nothing is requested of
\* the radio or the WiFi interface.
C9_NothingEnabledNothingDone ==
    (\A i \in 1..Len(networks) : ~networks[i].enabled) =>
        \A w \in ConnectSamples :
            ConnectToStoredNetworks(Cur, w) = [Cur EXCEPT !.ret = 0]

\* C9 happens: the store holds one entry, disabled, and the call fails
C9_Witness ==
    /\ begun /\ status = PROVISION_IDLE
    /\ Len(networks) = 1 /\ ~networks[1].enabled
    /\ ConnectToStoredNetworks(Cur, WL_IDLE_STATUS).ret = 0

\* the Disconnect command as the linked peer writes it
DisconnectCommand(sec) ==
    HandleGattWrite(Cur, CommandCharHandle, <<CMD_DISCONNECT>>,
                    WL_IDLE_STATUS, "ok", TRUE, sec)

\* C10: in any provisioning status the Disconnect command requests one WiFi
\* disconnect and leaves the status Idle when its processing returns.
C10_DisconnectCommandIdles ==
    \A sec \in SecAnswers :
        /\ DisconnectCommand(sec).status = PROVISION_IDLE
        /\ Len(Requests(DisconnectCommand(sec).out, "WiFi.disconnect")) = 1
        /\ Requests(DisconnectCommand(sec).out, "WiFi.begin") = <<>>

\* C10 happens: a peer is linked while the status is Connected, and its
\* Disconnect command is processed
C10_Witness ==
    /\ begun /\ connectedDevice # NULLDEV
    /\ status = PROVISION_CONNECTED
    /\ \A sec \in SecAnswers : DisconnectCommand(sec).status = PROVISION_IDLE

\* the ClearNetworks command as the linked peer writes it
ClearCommand(rm, sec) ==
    HandleGattWrite(Cur, CommandCharHandle, <<CMD_CLEAR_NETWORKS>>,
                    WL_IDLE_STATUS, "ok", rm, sec)

\* C11: in any provisioning status the ClearNetworks command leaves the store
\* empty when its processing returns, and leaves the status, the staged name
\* and passphrase and the peer reference as they were; the status callback is
\* not called.
C11_ClearCommandEmptiesStoreOnly ==
    \A rm \in BOOLEAN, sec \in SecAnswers :
        /\ ClearCommand(rm, sec).networks = <<>>
        /\ ClearCommand(rm, sec).status = status
        /\ ClearCommand(rm, sec).receivedSSID = receivedSSID
        /\ ClearCommand(rm, sec).receivedPassword = receivedPassword
        /\ ClearCommand(rm, sec).connectedDevice = connectedDevice
        /\ StatusCalls(ClearCommand(rm, sec).out) = <<>>

\* C11 happens: Connected, a callback registered, a peer linked with a name
\* and passphrase staged, entries stored, and the command empties the store
C11_Witness ==
    /\ begun /\ connectedDevice # NULLDEV /\ statusCallback
    /\ status = PROVISION_CONNECTED
    /\ receivedSSID # <<>> /\ receivedPassword # <<>>
    /\ Len(networks) > 0
    /\ \A rm \in BOOLEAN, sec \in SecAnswers : ClearCommand(rm, sec).networks = <<>>

\* C12: when the peer link is lost, in any provisioning status, the peer
\* reference is cleared, the subscribed peer is notified not-paired (0x00) on
\* the pairing-status attribute, the registered link-state callback is called
\* once, with false, and the provisioning status stays (no status callback).
C12_LinkLost ==
    LET t == HandleDeviceDisconnected(Cur)
    IN  /\ t.connectedDevice = NULLDEV
        /\ Requests(t.out, "notify")
              = IF subscribed
                THEN <<Ev("notify", <<PairingStatusCharHandle>>,
                          <<PAIRING_STATUS_NOT_PAIRED>>)>>
                ELSE <<>>
        /\ Requests(t.out, "bleConnectionStateCallback")
              = IF bleConnectionStateCallback
                THEN <<Ev("bleConnectionStateCallback", <<0>>, <<>>)>>
                ELSE <<>>
        /\ t.status = status
        /\ StatusCalls(t.out) = <<>>

\* C12 happens: Connected to a network, the linked peer subscribed, a
\* link-state callback registered, and the link is lost
C12_Witness ==
    /\ begun /\ connectedDevice # NULLDEV
    /\ status = PROVISION_CONNECTED
    /\ subscribed /\ bleConnectionStateCallback
    /\ Len(HandleDeviceDisconnected(Cur).out) = 2

\* C13, as the store's invariant is stated: after any saves and clears on a
\* store only this program wrote, no two entries have the same name, names
\* stored truncated included.  saveNetwork() compares the stored names with
\* the name as given and stores its first 32 bytes, so a longer name saved
\* again is appended again.
C13_OneEntryPerName ==
    \A i, j \in 1..Len(networks) :
        i # j => networks[i].ssid # networks[j].ssid

\* every write of the artifact LittleFS may be asked for
WriteAnswers == {"ok", "openfail", "writefail"}

\* the names a save may be given here: the specification's and the stored ones
SaveNames == Store.names \cup {networks[i].ssid : i \in 1..Len(networks)}

\* the passphrase a save stores
StoredPassword(password) == Take(CStr(password), MAX_PASSWORD_LENGTH)

\* entry i alone is rewritten, with this passphrase and enabled
UpdatedInPlace(t, i, password) ==
    /\ Len(t.networks) = Len(networks)
    /\ t.networks[i] = [ssid |-> networks[i].ssid,
                        password |-> StoredPassword(password), enabled |-> TRUE]
    /\ \A j \in 1..Len(networks) : j # i => t.networks[j] = networks[j]

\* C14: saveNetwork() with a name that is stored overwrites that entry's
\* passphrase and enables it, in place: the count, the entry's position and
\* every other entry stay, whatever becomes of the write of the artifact.
C14_SaveExistingInPlace ==
    \A ssid \in SaveNames, password \in Store.pass \cup {PassP}, fs \in WriteAnswers :
        (\E i \in 1..Len(networks) : ssid # NULLSTR /\ networks[i].ssid = CStr(ssid)) =>
            \E i \in 1..Len(networks) :
                /\ networks[i].ssid = CStr(ssid)
                /\ UpdatedInPlace(SaveNetwork(Cur, ssid, password, fs), i, password)

\* C14 happens: five entries, the second disabled, and a save of its name
\* with another passphrase rewrites it alone
C14_Witness ==
    /\ begun /\ Len(networks) = MAX_WIFI_NETWORKS
    /\ networks[2] = [ssid |-> NameB, password |-> PassP, enabled |-> FALSE]
    /\ UpdatedInPlace(SaveNetwork(Cur, NameB, Pass65, "ok"), 2, Pass65)
    /\ SaveNetwork(Cur, NameB, Pass65, "ok").networks # networks

\* no stored name equals the name as given
NewName(ssid) == \A i \in 1..Len(networks) : networks[i].ssid # CStr(ssid)

\* the save is refused: a new name and no room, or no name
Rejected(ssid) ==
    \/ StrEmpty(ssid)
    \/ Len(networks) = MAX_WIFI_NETWORKS /\ NewName(ssid)

\* C15: a refused saveNetwork() returns false and changes nothing: not the
\* entries, not their count, not the artifact, not any other field, and the
\* file system is not asked to write.
C15_RejectedSaveChangesNothing ==
    \A ssid \in SaveNames, password \in Store.pass \cup {PassP}, fs \in WriteAnswers :
        Rejected(ssid) =>
            SaveNetwork(Cur, ssid, password, fs) = [Cur EXCEPT !.ret = 0]

\* C15 happens: a full store with an artifact, refusing a new name, a name
\* over the limit and an empty name
C15_Witness ==
    /\ begun /\ Len(networks) = MAX_WIFI_NETWORKS /\ file.kind = "json"
    /\ NewName(Name32) /\ NewName(Name33)
    /\ SaveNetwork(Cur, Name32, Pass65, "ok").ret = 0
    /\ SaveNetwork(Cur, Name32, Pass65, "ok").networks = networks
    /\ SaveNetwork(Cur, Name33, Pass65, "ok").file = file
    /\ SaveNetwork(Cur, <<>>, Pass65, "ok").ret = 0

\* C16: in every reachable state, whatever was loaded, saved and cleared, an
\* artifact of more than five objects or of objects without a name included,
\* the store holds at most MAX_WIFI_NETWORKS entries and every entry's name
\* is non-empty.
C16_StoreWithinCapacityAndNamed ==
    /\ Len(networks) <= MAX_WIFI_NETWORKS
    /\ \A i \in 1..Len(networks) : networks[i].ssid # <<>>

\* C16 happens: the artifact of six objects was loaded and five were kept; of
\* the artifact with nameless objects the two named ones are kept
C16_Witness ==
    /\ begun /\ file = SixFile /\ Len(file.nets) > MAX_WIFI_NETWORKS
    /\ Len(networks) = MAX_WIFI_NETWORKS
    /\ networks = LoadFrom(file.nets, <<>>)
    /\ Len(OddFile.nets) = 4 /\ Len(LoadFrom(OddFile.nets, <<>>)) = 2

\* names of 1..32 bytes and passphrases of 0..64 bytes
ValidNames == {NameA, NameB, Name32} \cup {networks[i].ssid : i \in 1..Len(networks)}
ValidPasswords == {<<>>, PassP, Pass64}

\* loadNetworksFromFlash() of an object constructed after t, on t's artifact
Reloaded(t) == LoadNetworksFromFlash([After(t) EXCEPT !.networks = <<>>])

\* where saveNetwork() puts the entry of this name
Position(ssid) ==
    IF NewName(ssid) THEN Len(networks) + 1
    ELSE CHOOSE i \in 1..Len(networks) :
             /\ networks[i].ssid = ssid
             /\ \A j \in 1..(i - 1) : networks[j].ssid # ssid

\* C17: for a name of 1..32 bytes and a passphrase of 0..64 bytes, a
\* saveNetwork() that succeeds followed by a load of the artifact gives the
\* entry back as given, enabled and at its position, and every entry saved
\* before as it was and where it was.
C17_SaveLoadRoundTrip ==
    \A ssid \in ValidNames, password \in ValidPasswords :
        LET t == SaveNetwork(Cur, ssid, password, "ok")
            u == Reloaded(t)
        IN  t.ret = 1 =>
                /\ u.ret = 1
                /\ u.networks = t.networks
                /\ Len(u.networks) = IF NewName(ssid) THEN Len(networks) + 1
                                                      ELSE Len(networks)
                /\ u.networks[Position(ssid)] = Net(ssid, password, TRUE)
                /\ \A j \in 1..Len(networks) :
                       j # Position(ssid) => u.networks[j] = networks[j]

\* C17 happens: a store of two entries, the first disabled and without
\* passphrase, takes a name of 32 bytes with a passphrase of 64 bytes as its
\* third entry, and the load of what was written gives the three back
C17_Witness ==
    /\ begun /\ Len(networks) = 2 /\ ~networks[1].enabled
    /\ networks[1].password = <<>> /\ NewName(Name32)
    /\ SaveNetwork(Cur, Name32, Pass64, "ok").ret = 1
    /\ Reloaded(SaveNetwork(Cur, Name32, Pass64, "ok")).networks =
           Append(networks, Net(Name32, Pass64, TRUE))

\* clearNetworks() answers true, a second clearNetworks() leaves what the first
\* left, and a load after it finds no entry, in the object that cleared and in
\* one constructed afterwards
ClearedFor(rm, again) ==
    LET t == ClearNetworks(Cur, rm)
    IN  /\ t.ret = 1
        /\ t.networks = <<>>
        /\ ClearNetworks(After(t), again) = t
        /\ LoadNetworksFromFlash(After(t)).networks = <<>>
        /\ Reloaded(t).networks = <<>>

\* C18, as stated: whatever the store holds, clearNetworks() succeeds, twice is
\* as once, and a load after it yields an empty list.  clearNetworks() does
\* not look at what LittleFS.remove() answers: when the removal fails it still
\* answers true, the artifact stays and the load brings the entries back.
C18_ClearIdempotentThenLoadEmpty ==
    begun => \A rm \in Store.rm, again \in Store.rm : ClearedFor(rm, again)

\* the peer writes the save command
SaveCommand(fs, sec) ==
    HandleGattWrite(Cur, CommandCharHandle, <<CMD_SAVE_NETWORK>>,
                    WL_IDLE_STATUS, fs, TRUE, sec)

\* saveNetwork() of what is staged
SavedStaged(fs) == SaveNetwork(Cur, receivedSSID, receivedPassword, fs)

\* C19: the save command with a staged name stores what saveNetwork() of the
\* staged name and passphrase stores and then empties both staged values,
\* whether saveNetwork() succeeded or not; with no staged name it changes
\* nothing: not the store, not the artifact, not a staged passphrase, not the
\* status, and nothing is requested.
C19_SaveCommandConsumesStaged ==
    \A fs \in WriteAnswers, sec \in SecAnswers :
        LET t == SaveCommand(fs, sec)
        IN  IF receivedSSID # <<>>
            THEN /\ t = [SavedStaged(fs) EXCEPT !.receivedSSID = <<>>,
                                                !.receivedPassword = <<>>,
                                                !.ret = 0]
                 /\ t.status = status /\ t.out = <<>>
            ELSE t = [Cur EXCEPT !.ret = 0]

\* C19 happens: a full store, a new name and a passphrase staged; the save
\* is refused and both staged values are emptied all the same
C19_Witness ==
    /\ begun /\ connectedDevice # NULLDEV
    /\ Len(networks) = MAX_WIFI_NETWORKS
    /\ receivedSSID # <<>> /\ receivedPassword # <<>> /\ NewName(receivedSSID)
    /\ SavedStaged("ok").ret = 0
    /\ \A sec \in SecAnswers :
           /\ SaveCommand("ok", sec).receivedSSID = <<>>
           /\ SaveCommand("ok", sec).receivedPassword = <<>>
           /\ SaveCommand("ok", sec).networks = networks

\* the command values processCommand() has no case for
ReservedCommands == {CMD_GET_STATUS, CMD_START_SCAN, CMD_GET_SCAN_RESULTS}

ReservedCommand(c, a, sec) ==
    HandleGattWrite(Cur, CommandCharHandle, <<c>>, a.w, a.fs, a.rm, sec)

\* C20: a write of GetStatus (0x04), StartScan (0x06) or GetScanResults (0x07)
\* is answered 0 (no error) and, in every state, changes no field of the
\* object (status, store, artifact, staged values, peer reference) and
\* requests nothing of the radio or the network interface.
C20_ReservedCommandsDoNothing ==
    \A c \in ReservedCommands, sec \in SecAnswers :
        \A a \in {Ans(w, fs, rm) : w \in {WL_IDLE_STATUS, WL_CONNECTED},
                                   fs \in {"ok", "openfail"}, rm \in BOOLEAN} :
            ReservedCommand(c, a, sec) = [[Cur EXCEPT !.ret = 0] EXCEPT !.out = <<>>]

\* C20 happens: an attempt is pending, a peer is held, a name and a
\* passphrase are staged, networks are stored, and the three commands leave
\* all of it
C20_Witness ==
    /\ begun /\ connectedDevice # NULLDEV /\ status = PROVISION_CONNECTING
    /\ receivedSSID # <<>> /\ receivedPassword # <<>> /\ Len(networks) > 0
    /\ \A c \in ReservedCommands, sec \in SecAnswers :
           ReservedCommand(c, Ans(WL_CONNECTED, "ok", TRUE), sec) =
               [Cur EXCEPT !.ret = 0]

\* the outcomes of every connect request that can be made in this state
ConnectRequests ==
    {ConnectToNetwork(Cur, ssid, password, w) :
        ssid \in Core.names, password \in Core.pass, w \in ConnectSamples}
    \cup {ConnectToStoredNetworks(Cur, w) : w \in ConnectSamples}
    \cup {ConnectCommand(w, sec) : w \in ConnectSamples, sec \in SecAnswers}

\* the request was refused: no join is asked for and the pending attempt
\* keeps its start time
RefusedBusy(t) ==
    /\ t.status = PROVISION_CONNECTING
    /\ Requests(t.out, "WiFi.begin") = <<>>
    /\ t.connectionStartTime = connectionStartTime

\* C21, as stated: a connect request made while the status is Connecting
\* (connectToNetwork(), connectToStoredNetworks(), the Connect command with or
\* without a staged name) starts no second attempt.  Only
\* connectToStoredNetworks() looks at the status; connectToNetwork() asks for
\* the join and restarts the clock in any status.
C21_OneAttemptOutstanding ==
    status = PROVISION_CONNECTING => \A t \in ConnectRequests : RefusedBusy(t)

\* nothing is staged in t: a read of the name gives no byte and the Connect
\* command goes to the stored networks
NothingStaged(t) ==
    /\ t.receivedSSID = <<>>
    /\ t.receivedPassword = <<>>
    /\ \A sec \in SecAnswers :
           HandleGattRead(After(t), SsidCharHandle, FALSE, MAX_SSID_LENGTH, sec).ret = 0
    /\ \A w \in ConnectSamples :
           ProcessCommand(After(t), CMD_CONNECT, w, "ok", TRUE) =
               ConnectToStoredNetworks(After(t), w)

\* C22, as stated: after a Connect command that used a staged name, the staged
\* name and passphrase are empty.  processCommand() empties them after
\* CMD_SAVE_NETWORK only; after CMD_CONNECT both stay, the name stays readable
\* and the next Connect command joins the same network again.
C22_ConnectCommandClearsStaged ==
    receivedSSID # <<>> =>
        \A w \in ConnectSamples, sec \in SecAnswers :
            NothingStaged(ConnectCommand(w, sec))

\* C23, as stated: a peer link established while the status is Idle moves it
\* to Started, and the loss of that link moves it from Started back to Idle.
\* handleDeviceConnected() records the peer and calls the link callback; it
\* never calls setStatus(), and nothing else sets PROVISION_STARTED, so the
\* status stays Idle while the peer is linked.
C23_StartedWhilePeerLinked ==
    /\ (begun /\ status = PROVISION_IDLE) =>
           HandleDeviceConnected(Cur, BLE_STATUS_OK, Device).status = PROVISION_STARTED
    /\ status = PROVISION_STARTED =>
           HandleDeviceDisconnected(Cur).status = PROVISION_IDLE

\* the statuses left by everything but a tick that can run in this state and
\* is neither a connect request nor the Disconnect command: the other commands
\* and attribute writes, reads, link and pairing events, the store's calls
CallOutcomes ==
    {HandleGattWrite(Cur, wr[1], wr[2], WL_IDLE_STATUS, "ok", TRUE, sec).status :
             wr \in Core.writes \ CommandWrites({CMD_CONNECT, CMD_DISCONNECT}),
             sec \in SecAnswers}
    \cup {HandleGattRead(Cur, rd[1], rd[2], rd[3], sec).status :
             rd \in Reads, sec \in SecAnswers}
    \cup {HandleDeviceConnected(Cur, b, Device).status :
             b \in {BLE_STATUS_OK, BLE_STATUS_CONNECTION_ERROR}}
    \cup {HandleDeviceDisconnected(Cur).status}
    \cup {OnPairingStatusChange(Cur, pairing).status :
             pairing \in {PAIRING_IDLE, PAIRING_STARTED, PAIRING_COMPLETE, PAIRING_FAILED}}
    \cup {SaveNetwork(Cur, NameB, PassQ, fs).status : fs \in WriteAnswers}
    \cup {ClearNetworks(Cur, rm).status : rm \in BOOLEAN}
    \cup {SetStatusCallback(Cur, cb).status : cb \in BOOLEAN}

\* the same, ticks included
OtherOutcomes == {Loop(Cur, w).status : w \in WiFiSamples} \cup CallOutcomes

DisconnectOutcomes == {DisconnectCommand(sec).status : sec \in SecAnswers}

\* C24, as stated: while the status is Failed only a connect request changes
\* it; no other command, call, link event or status sample does.  The
\* Disconnect command does: processCommand() sets Idle in every status.
C24_FailedLeftByConnectOnly ==
    status = PROVISION_FAILED =>
        /\ OtherOutcomes = {PROVISION_FAILED}
        /\ DisconnectOutcomes = {PROVISION_FAILED}

\* C24, amended: while the status is Failed, a connect request leaves it
\* Failed or makes it Connecting (Connecting whenever connectToNetwork() is
\* given a name), the Disconnect command makes it Idle, and nothing else
\* changes it.
C24_FailedLeftByConnectOrDisconnect ==
    status = PROVISION_FAILED =>
        /\ OtherOutcomes = {PROVISION_FAILED}
        /\ DisconnectOutcomes = {PROVISION_IDLE}
        /\ \A t \in ConnectRequests :
               t.status \in {PROVISION_FAILED, PROVISION_CONNECTING}
        /\ \A w \in ConnectSamples :
               ConnectToNetwork(Cur, NameB, PassQ, w).status = PROVISION_CONNECTING

\* C24 happens: the status is Failed with a peer linked; ticks leave it, the
\* peer's Disconnect command makes it Idle, a connect request Connecting
C24_Witness ==
    /\ begun /\ status = PROVISION_FAILED /\ connectedDevice # NULLDEV
    /\ Loop(Cur, WL_DISCONNECTED).status = PROVISION_FAILED
    /\ DisconnectOutcomes = {PROVISION_IDLE}
    /\ ConnectToNetwork(Cur, NameB, PassQ, WL_IDLE_STATUS).status = PROVISION_CONNECTING

\* the answers of WiFi.status() that fail an attempt
FailureSamples == {WL_CONNECT_FAILED, WL_NO_SSID_AVAIL}

\* C25: the status becomes Failed from Connecting only, and only by a tick
\* whose sample is connect-failed or no-such-network or that finds the
\* timeout elapsed; no call, command, write, read or event makes it Failed.
C25_FailedFromConnectingByTick ==
    status # PROVISION_FAILED =>
        /\ PROVISION_FAILED \notin CallOutcomes \cup DisconnectOutcomes
        /\ \A t \in ConnectRequests : t.status # PROVISION_FAILED
        /\ \A w \in WiFiSamples :
               Loop(Cur, w).status = PROVISION_FAILED =>
                   /\ status = PROVISION_CONNECTING
                   /\ w \in FailureSamples \/ (TimedOut /\ w # WL_CONNECTED)

\* C25 happens: an attempt within its timeout, which a tick sampling
\* no-such-network fails and a tick sampling idle leaves pending
C25_Witness ==
    /\ begun /\ status = PROVISION_CONNECTING /\ ~TimedOut
    /\ Loop(Cur, WL_NO_SSID_AVAIL).status = PROVISION_FAILED
    /\ Loop(Cur, WL_CONNECT_FAILED).status = PROVISION_FAILED
    /\ Loop(Cur, WL_IDLE_STATUS).status = PROVISION_CONNECTING

\* the answers of WiFi.status() that tell of a dropped connection
DropSamples == {WL_DISCONNECTED, WL_CONNECTION_LOST}

\* the object with any bookkeeping of the application's network-status callback
AnyBookkeeping ==
    {[Cur EXCEPT !.wifiStatusCallback = cb, !.lastReportedWiFiStatusToApp = last] :
        cb \in BOOLEAN, last \in WiFiSamples \cup {WL_NO_SHIELD}}

\* C26: while the status is Connected, a tick that samples disconnected or
\* connection-lost leaves the status Idle, whether a network-status callback
\* is registered and whatever was last reported to it; and the status is never
\* Connected after a tick that sampled disconnected or connection-lost.
C26_ConnectionLossIdlesAtThatTick ==
    status = PROVISION_CONNECTED =>
        /\ internalLastWiFiState \notin DropSamples
        /\ \A w \in DropSamples, s \in AnyBookkeeping :
               /\ Loop(s, w).status = PROVISION_IDLE
               /\ Loop(s, w).internalLastWiFiState = w

\* C26 happens: Connected, a network-status callback registered and told of
\* the connection, and the tick that samples connection-lost makes it Idle
C26_Witness ==
    /\ begun /\ status = PROVISION_CONNECTED /\ wifiStatusCallback
    /\ lastReportedWiFiStatusToApp = WL_CONNECTED
    /\ Loop(Cur, WL_CONNECTION_LOST).status = PROVISION_IDLE
    /\ Loop(Cur, WL_DISCONNECTED).status = PROVISION_IDLE

\* the object t some time later
Later(t) == {[After(t) EXCEPT !.now = Add32(t.now, d)] : d \in {0} \cup TimeSteps}

\* no tick moves s out of Idle, whatever it samples
TicksLeaveIdle(s) == \A w \in WiFiSamples : Loop(s, w).status = PROVISION_IDLE

\* C27: the Disconnect command processed while Connecting leaves the status
\* Idle, and from then on no tick, whatever it samples and however long after
\* the cancelled attempt began, makes it Connected or Failed: a tick changes
\* nothing while the status is Idle.
C27_DisconnectCancelsAttempt ==
    /\ status = PROVISION_CONNECTING =>
           \A sec \in SecAnswers :
               /\ DisconnectCommand(sec).status = PROVISION_IDLE
               /\ \A s \in Later(DisconnectCommand(sec)) : TicksLeaveIdle(s)
    /\ status = PROVISION_IDLE => \A s \in Later(Cur) : TicksLeaveIdle(s)

\* C27 happens: an attempt past its timeout with the peer still linked; its
\* Disconnect command makes the status Idle and the tick that would have
\* failed the attempt leaves it Idle
C27_Witness ==
    /\ begun /\ status = PROVISION_CONNECTING /\ TimedOut
    /\ connectedDevice # NULLDEV
    /\ Loop(Cur, WL_IDLE_STATUS).status = PROVISION_FAILED
    /\ \A sec \in SecAnswers :
           Loop(After(DisconnectCommand(sec)), WL_IDLE_STATUS).status = PROVISION_IDLE

\* the places in the log where op was requested
Places(log, op) == {i \in 1..Len(log) : log[i].op = op}

\* every request of op comes before every request of the join
BeforeJoin(log, op) ==
    \A i \in Places(log, op), j \in Places(log, "WiFi.begin") : i < j

\* C28: every request that enters Connecting asks, before it asks for the
\* join, the peripheral to stop advertising, once, and asks for the peer's
\* disconnection exactly when a peer reference is held, for that peer; the
\* request leaves the peer reference as it was, and only the link-lost event
\* clears it.
C28_EntryStopsAdvertisingAndDropsPeer ==
    \A t \in ConnectRequests :
        /\ (t.status = PROVISION_CONNECTING /\ status # PROVISION_CONNECTING) =>
               Len(Requests(t.out, "WiFi.begin")) = 1
        /\ Requests(t.out, "WiFi.begin") # <<>> =>
               /\ t.status = PROVISION_CONNECTING
               /\ Len(Requests(t.out, "stopAdvertising")) = 1
               /\ BeforeJoin(t.out, "stopAdvertising")
               /\ Requests(t.out, "bleDisconnect") =
                      IF connectedDevice # NULLDEV
                      THEN <<Ev("bleDisconnect", <<connectedDevice>>, <<>>)>>
                      ELSE <<>>
               /\ BeforeJoin(t.out, "bleDisconnect")
               /\ t.connectedDevice = connectedDevice
               /\ HandleDeviceDisconnected(After(t)).connectedDevice = NULLDEV

\* C28 happens: a linked peer with a name staged sends the Connect command
\* from Idle; advertising is stopped, the peer's disconnection is asked for,
\* then the join, and the peer reference is still held
C28_Witness ==
    /\ begun /\ status = PROVISION_IDLE /\ connectedDevice # NULLDEV
    /\ receivedSSID # <<>> /\ ~statusCallback
    /\ \A sec \in SecAnswers :
           /\ ConnectCommand(WL_IDLE_STATUS, sec).out =
                  <<Ev("stopAdvertising", <<>>, <<>>),
                    Ev("bleDisconnect", <<connectedDevice>>, <<>>),
                    Ev("WiFi.begin", receivedSSID, receivedPassword)>>
           /\ ConnectCommand(WL_IDLE_STATUS, sec).connectedDevice = connectedDevice

\* the time since the attempt began, as loop() computes it
Elapsed == Sub32(now, connectionStartTime)

\* the tick finds the attempt timed out: Failed and one disconnect request
YieldsTimedOut(t) ==
    /\ t.status = PROVISION_FAILED
    /\ Len(Requests(t.out, "WiFi.disconnect")) = 1

\* the tick leaves the attempt pending
YieldsPending(t) ==
    /\ t.status = PROVISION_CONNECTING
    /\ Requests(t.out, "WiFi.disconnect") = <<>>

\* C29, as stated: a tick in Connecting at which exactly
\* WIFI_CONNECT_TIMEOUT_MS have elapsed, the interface reporting neither
\* connected nor a failure, fails the attempt and requests a disconnect.
\* loop() tests elapsed > WIFI_CONNECT_TIMEOUT_MS, so this tick does nothing.
C29_TimeoutAtDeadline ==
    (status = PROVISION_CONNECTING /\ Elapsed = TimeoutMs) =>
        \A w \in Unresolved : YieldsTimedOut(Loop(Cur, w))

\* C29, amended: the timeout fires when more than WIFI_CONNECT_TIMEOUT_MS have
\* elapsed: at exactly 15 000 ms the tick leaves the attempt pending and
\* requests nothing, at 15 001 ms it fails it and requests one disconnect.
C29_TimeoutAfterDeadline ==
    status = PROVISION_CONNECTING =>
        \A w \in Unresolved :
            /\ Elapsed = TimeoutMs => YieldsPending(Loop(Cur, w))
            /\ Elapsed = Add32(TimeoutMs, 1) => YieldsTimedOut(Loop(Cur, w))
            /\ ~Gt32(Elapsed, TimeoutMs) => YieldsPending(Loop(Cur, w))

\* C29 happens: a tick in Connecting exactly at the timeout, which leaves the
\* attempt pending
C29_Witness ==
    /\ begun /\ status = PROVISION_CONNECTING /\ Elapsed = TimeoutMs
    /\ YieldsPending(Loop(Cur, WL_IDLE_STATUS))
    /\ YieldsTimedOut(Loop([Cur EXCEPT !.now = Add32(now, 1)], WL_IDLE_STATUS))

\* the attributes handleGattRead() does not serve
NotOwned == {PasswordCharHandle, CommandCharHandle, UnknownHandle}

\* C30, as stated: a read of the name attribute while nothing is staged gives
\* a result the caller can tell from a read of an attribute the handler does
\* not own.  handleGattRead() returns the length of the value, 0 for the
\* empty name, and returns 0 for what it does not handle, writing nothing to
\* the buffer in both cases.
C30_EmptyValueDiffersFromNotHandled ==
    (begun /\ connectedDevice # NULLDEV /\ receivedSSID = <<>>) =>
        \A id \in NotOwned, bufferNull \in BOOLEAN, sec \in SecAnswers :
            ReadResult(HandleGattRead(Cur, SsidCharHandle, bufferNull, MAX_SSID_LENGTH, sec))
                # ReadResult(HandleGattRead(Cur, id, bufferNull, MAX_SSID_LENGTH, sec))

\* everything BLESecure can answer about the pairing and the link
SecCases ==
    {[pairing |-> p, encrypted |-> e] :
        p \in {PAIRING_IDLE, PAIRING_STARTED, PAIRING_COMPLETE, PAIRING_FAILED},
        e \in BOOLEAN}

\* the peer writes the client configuration descriptor of the pairing status
CccdWrite(value, sec) ==
    HandleGattWrite(Cur, CccdHandle, value, WL_IDLE_STATUS, "ok", TRUE, sec)

\* the value of the pairing-status attribute
PairingStatusValue(sec) ==
    IF connectedDevice # NULLDEV /\ Secure(sec)
    THEN PAIRING_STATUS_PAIRED ELSE PAIRING_STATUS_NOT_PAIRED

\* C31: a write that enables notifications of the pairing status asks for one
\* notification, of that attribute, carrying 0x01 exactly when a peer is held
\* and BLESecure reports the pairing complete and the link encrypted, 0x00
\* otherwise; a write that disables them asks for none.
C31_SubscribePushesCurrentStatus ==
    begun =>
        \A sec \in SecCases :
            /\ CccdWrite(<<1, 0>>, sec).out =
                   <<Ev("notify", <<PairingStatusCharHandle>>, <<PairingStatusValue(sec)>>)>>
            /\ CccdWrite(<<1, 0>>, sec).subscribed
            /\ CccdWrite(<<0, 0>>, sec).out = <<>>
            /\ ~CccdWrite(<<0, 0>>, sec).subscribed

\* C31 happens: a linked peer that is not subscribed enables notifications;
\* it is pushed 0x01 on a paired and encrypted link and 0x00 on any other
C31_Witness ==
    /\ begun /\ connectedDevice # NULLDEV /\ ~subscribed
    /\ \E sec \in SecCases :
           /\ Secure(sec)
           /\ CccdWrite(<<1, 0>>, sec).out =
                  <<Ev("notify", <<PairingStatusCharHandle>>, <<PAIRING_STATUS_PAIRED>>)>>
    /\ \E sec \in SecCases :
           /\ sec.pairing = PAIRING_COMPLETE /\ ~sec.encrypted
           /\ CccdWrite(<<1, 0>>, sec).out =
                  <<Ev("notify", <<PairingStatusCharHandle>>, <<PAIRING_STATUS_NOT_PAIRED>>)>>

\* the artifact cannot be read as a list: absent, unparseable or over 2048 bytes
Unreadable == {"absent", "bad", "big"}

\* C32, as stated: the load at boot leaves the list empty whenever the
\* artifact is absent, malformed or oversized; it reports success for an
\* absent artifact and failure for a malformed or oversized one.
\* loadNetworksFromFlash() returns false for an absent artifact as it does for
\* the other two.
C32_LoadOfUnreadableArtifact ==
    (~begun /\ file.kind \in Unreadable) =>
        LET t == LoadNetworksFromFlash(Cur)
        IN  /\ t.networks = <<>>
            /\ Begin(Cur, TRUE).networks = <<>>
            /\ t.ret = IF file.kind = "absent" THEN 1 ELSE 0

\* a step that restarts the timeout measurement of a running attempt
RestartsMeasurement ==
    /\ status = PROVISION_CONNECTING
    /\ status' = PROVISION_CONNECTING
    /\ connectionStartTime' # connectionStartTime

\* every Connecting state is eventually left
ConnectingIsLeft ==
    (status = PROVISION_CONNECTING) ~> (status # PROVISION_CONNECTING)

\* a connect request made now, however long the running attempt has lasted,
\* measures the timeout from now: the ticks that follow it at once leave the
\* attempt pending as long as the interface settles nothing
RequestRestartsMeasurement ==
    (begun /\ status = PROVISION_CONNECTING) =>
        \A w \in ConnectSamples :
            LET t == After(ConnectToNetwork(Cur, NameB, PassQ, w))
            IN  /\ t.status = PROVISION_CONNECTING
                /\ t.connectionStartTime = now
                /\ \A w2 \in Unresolved : YieldsPending(Loop(t, w2))

\* C33: with ticks occurring and time advancing, once no step restarts the
\* measurement any more every Connecting state is eventually left, whatever
\* the interface reports; and a connect request made while Connecting
\* restarts the measurement, so that the tick after it times nothing out.
C33_ConnectingEventuallyLeft ==
    /\ (<>[][~RestartsMeasurement]_vars) => ConnectingIsLeft
    /\ [](RequestRestartsMeasurement)

\* C33 happens: an attempt is past its timeout, and a connect request made
\* now would start the measurement again
C33_Witness ==
    /\ TimedOut
    /\ \A w \in Unresolved : YieldsTimedOut(Loop(Cur, w))
    /\ After(ConnectToNetwork(Cur, NameB, PassQ, WL_IDLE_STATUS)).connectionStartTime = now
    /\ connectionStartTime # now

\* the requests of every operation that can follow begin(): ticks, writes and
\* reads of the peer, link events, pairing events and the application's calls
LaterLogs ==
    {Loop(Cur, w).out : w \in WiFiSamples}
    \cup {HandleGattWrite(Cur, wr[1], wr[2], w, "ok", TRUE, sec).out :
             wr \in Core.writes \cup Ble.writes,
             w \in {WL_IDLE_STATUS, WL_CONNECTED}, sec \in SecAnswers}
    \cup {HandleGattRead(Cur, rd[1], rd[2], rd[3], sec).out :
             rd \in Reads, sec \in SecAnswers}
    \cup {HandleDeviceConnected(Cur, b, Device).out :
             b \in {BLE_STATUS_OK, BLE_STATUS_CONNECTION_ERROR}}
    \cup {HandleDeviceDisconnected(Cur).out}
    \cup {OnPairingStatusChange(Cur, pairing).out :
             pairing \in {PAIRING_IDLE, PAIRING_STARTED, PAIRING_COMPLETE, PAIRING_FAILED}}
    \cup {ConnectToNetwork(Cur, ssid, PassQ, w).out :
             ssid \in Core.names, w \in ConnectSamples}
    \cup {ConnectToStoredNetworks(Cur, w).out : w \in ConnectSamples}
    \cup {SaveNetwork(Cur, NameB, PassQ, fs).out : fs \in WriteAnswers}
    \cup {ClearNetworks(Cur, rm).out : rm \in BOOLEAN}

\* C34: begin() on a mounted file system requests advertising to start, once;
\* after begin() no tick, command, link event or call requests it again, in
\* any status, whether or not a peer is linked.
C34_AdvertisingStartedOnlyByBegin ==
    /\ ~begun => Len(Requests(Begin(Cur, TRUE).out, "startAdvertising")) = 1
    /\ begun => \A log \in LaterLogs : Requests(log, "startAdvertising") = <<>>

\* C34 happens: an attempt, whose entry asked advertising to stop, has failed
\* and the peer's link is gone; the link-lost event and the ticks since have
\* requested nothing of the advertiser, and a connect request would only ask
\* it to stop again
C34_Witness ==
    /\ begun
    /\ status = PROVISION_FAILED
    /\ connectedDevice = NULLDEV
    /\ \A log \in LaterLogs : Requests(log, "startAdvertising") = <<>>
    /\ Len(Requests(ConnectToNetwork(Cur, NameB, PassQ, WL_IDLE_STATUS).out,
                    "stopAdvertising")) = 1

\* the status a sample that settles the attempt settles it to
Settled(w) == IF w = WL_CONNECTED THEN PROVISION_CONNECTED ELSE PROVISION_FAILED

Settling == {WL_CONNECTED, WL_CONNECT_FAILED, WL_NO_SSID_AVAIL}

\* C35: a tick in Connecting whose sample is connected, connect-failed or
\* no-such-network settles the attempt by that sample, whatever time has
\* elapsed; so does the first tick after a connect request, made in any
\* status and whatever the interface reported when the request was made, with
\* no time elapsed since the request.
C35_FirstTickSettlesBySampleAlone ==
    /\ status = PROVISION_CONNECTING =>
           \A w \in Settling : Loop(Cur, w).status = Settled(w)
    /\ begun =>
           \A w0 \in ConnectSamples, w \in Settling :
               LET t == After(ConnectToNetwork(Cur, NameB, PassQ, w0))
               IN  /\ t.connectionStartTime = t.now
                   /\ Loop(t, w).status = Settled(w)

\* C35 happens: an attempt failed with the interface reporting connect-failed,
\* a new request has just been made, and the tick that samples the same
\* report fails the new attempt with no time elapsed
C35_Witness ==
    /\ status = PROVISION_CONNECTING
    /\ Elapsed = U32(0, 0)
    /\ lastReportedWiFiStatusToApp = WL_CONNECT_FAILED
    /\ Loop(Cur, WL_CONNECT_FAILED).status = PROVISION_FAILED
    /\ Loop(Cur, WL_CONNECTED).status = PROVISION_CONNECTED

\* the list a load would read from the artifact t leaves; none from an absent one
DurableList(t) == IF t.file.kind = "absent" THEN <<>> ELSE Reloaded(t).networks

\* a save whose write fails once the list in memory has been modified
FailedSaves ==
    {t \in {SaveNetwork(Cur, ssid, PassQ, "writefail") : ssid \in SaveNames} :
        t.ret = 0 /\ t.networks # networks}

\* the store operations made now, and those made next after a failed save
StoreOutcomes(rms) ==
    LET from == {Cur} \cup {After(t) : t \in FailedSaves}
    IN  {SaveNetwork(s, ssid, Pass65, fs) :
            s \in from, ssid \in SaveNames, fs \in WriteAnswers}
        \cup {ClearNetworks(s, rm) : s \in from, rm \in rms}

\* C36, as stated: a save or a clear that returns success leaves the artifact
\* holding the list in memory, an absent artifact holding the empty list; also
\* after a save whose write failed, and also when the clear's removal of the
\* artifact fails.  clearNetworks() returns true without looking at what
\* LittleFS.remove() returned, so a clear whose removal fails reports success
\* over an artifact that still holds the old list.
C36_SuccessMeansDurableEqualsMemory ==
    begun =>
        \A t \in StoreOutcomes(BOOLEAN) : t.ret = 1 => DurableList(t) = t.networks

\* the counter has wrapped since the attempt started
Wrapped == Gt32(connectionStartTime, now)

\* the milliseconds that have passed since the attempt started, counted
\* without the counter's arithmetic: up to the wrap and from it when the
\* counter has wrapped (less than one round of the counter passes here)
RealElapsedMs ==
    IF Wrapped
    THEN ((Half - 1 - connectionStartTime.hi) * Half + (Half - connectionStartTime.lo))
         + (now.hi * Half + now.lo)
    ELSE (now.hi - connectionStartTime.hi) * Half + (now.lo - connectionStartTime.lo)

\* C37: whether or not the counter has wrapped since the attempt started, a
\* tick at which the interface settles nothing fails the attempt when more
\* than WIFI_CONNECT_TIMEOUT_MS milliseconds have passed since the request,
\* and leaves it pending when that many or fewer have.
C37_TimeoutAcrossWraparound ==
    status = PROVISION_CONNECTING =>
        \A w \in Unresolved :
            IF RealElapsedMs > WIFI_CONNECT_TIMEOUT_MS
            THEN YieldsTimedOut(Loop(Cur, w))
            ELSE YieldsPending(Loop(Cur, w))

\* C37 happens: an attempt started within the last WIFI_CONNECT_TIMEOUT_MS
\* milliseconds before the wrap is ticked after it, one millisecond past
\* its timeout
C37_Witness ==
    /\ status = PROVISION_CONNECTING
    /\ Wrapped
    /\ connectionStartTime.hi = Half - 1
    /\ RealElapsedMs = WIFI_CONNECT_TIMEOUT_MS + 1
    /\ \A w \in Unresolved : YieldsTimedOut(Loop(Cur, w))

====
